---- MODULE Spec2Model ----
(***************************************************************************)
(* UMLS code set builder: the terminology gateway (lib/api.ts), the        *)
(* recursive descendant walk, the source-code -> CUI reconciler and the    *)
(* code set build handler (components/UMLSSearch.tsx).                     *)
(*                                                                         *)
(* One action is one resumption of the JavaScript event loop: it takes the *)
(* response(s) of the request(s) in flight, runs the continuation up to    *)
(* the next awaited request or to the end of the handler, and leaves the   *)
(* next request in flight.                                                 *)
(*                                                                         *)
(* A text that the code splits on "/" is modelled by its sequence of       *)
(* "/"-separated segments: "G43.909" is <<"G43.909">>, the empty or        *)
(* missing text is <<"">>.                                                 *)
(***************************************************************************)
EXTENDS Integers, Sequences, FiniteSets, TLC

VARIABLES apiKey, gw, walk, rec, build

vars == <<apiKey, gw, walk, rec, build>>

(***************************************************************************)
(* Bounds of the model.                                                    *)
(***************************************************************************)
\* page size of the descendants endpoint, scaled down from 5000
PageSize == 2
\* longest atom list of one concept response
MaxAtoms == 2

(***************************************************************************)
(* Sequence helpers.                                                       *)
(***************************************************************************)
SeqsUpTo(S, n) == UNION {[1..k -> S] : k \in 0..n}

Range(s) == {s[i] : i \in 1..Len(s)}

RECURSIVE Flatten(_)
Flatten(ss) == IF ss = <<>> THEN <<>> ELSE Head(ss) \o Flatten(Tail(ss))

\* Array.from(new Map(items.map(item => [key(item), item])).values()):
\* a key keeps the position of its first occurrence and the value of its last
FirstIndexOf(keys, k) == CHOOSE i \in 1..Len(keys) :
    keys[i] = k /\ \A j \in 1..(i - 1) : keys[j] # k

LastIndexOf(keys, k) == CHOOSE i \in 1..Len(keys) :
    keys[i] = k /\ \A j \in (i + 1)..Len(keys) : keys[j] # k

IsFirstOccurrence(keys, i) == \A j \in 1..(i - 1) : keys[j] # keys[i]

MapValues(keys, items) ==
    LET firsts == SelectSeq([i \in 1..Len(keys) |-> i],
                            LAMBDA i : IsFirstOccurrence(keys, i))
    IN  [n \in 1..Len(firsts) |-> items[LastIndexOf(keys, keys[firsts[n]])]]

(***************************************************************************)
(* Vocabulary tables.                                                      *)
(***************************************************************************)
HIERARCHICAL_VOCABULARIES ==
    {"SNOMEDCT_US", "ICD10CM", "ICD9CM", "RXNORM", "ATC", "LNC", "ICD10PCS"}

STANDARD_VOCABULARIES ==
    [condition |-> "SNOMEDCT_US", drug |-> "RXNORM", measurement |-> "LNC",
     procedure |-> "SNOMEDCT_US", observation |-> "SNOMEDCT_US"]

BUILD_DOMAIN_VOCABULARIES ==
    [condition   |-> <<"ICD10CM", "SNOMEDCT_US", "ICD9CM">>,
     observation |-> <<"ICD10CM", "SNOMEDCT_US", "LNC", "CPT", "HCPCS">>,
     drug        |-> <<"NDC", "RXNORM", "CPT", "CVX", "HCPCS", "ATC">>,
     measurement |-> <<"LNC", "CPT", "SNOMEDCT_US", "HCPCS">>,
     procedure   |-> <<"CPT", "HCPCS", "SNOMEDCT_US", "ICD9PCS", "LNC", "ICD10PCS">>]

getStandardVocabularyForDomain(domain) == STANDARD_VOCABULARIES[domain]

(***************************************************************************)
(* Texts and the credential.                                               *)
(***************************************************************************)
EmptyText == <<"">>

Plain(c) == <<c>>

UrlOf(vocabulary, c) ==
    <<"https:", "", "uts-ws.nlm.nih.gov", "rest", "content", "2025AB",
      "source", vocabulary, c>>

\* a URL whose path ends with "/": its last segment is empty
UrlEndingInSlash(vocabulary) ==
    <<"https:", "", "uts-ws.nlm.nih.gov", "rest", "content", "2025AB",
      "source", vocabulary, "">>

Falsy(text) == text = EmptyText

\* a || b
OrElse(a, b) == IF Falsy(a) THEN b ELSE a

\* text.startsWith('http')
StartsWithHttp(text) == text[1] \in {"http:", "https:"}

\* text.split('/') and the first part
FirstSegment(text) == <<text[1]>>

\* text.split('/') and the last part
LastSegment(text) == <<text[Len(text)]>>

KeyMissing == ""
KeyPlaceholder == "your_umls_api_key_here"
KeyValid == "k"

\* !apiKey || apiKey === 'your_umls_api_key_here'
KeyNotConfigured(key) == key = KeyMissing \/ key = KeyPlaceholder

(***************************************************************************)
(* Responses of the remote services.  kind: "ok" (2xx, JSON body),         *)
(* "badjson" (2xx, response.json() rejects), "notfound" (404), "error"     *)
(* (another non-2xx status), "network" (fetch rejects).                    *)
(***************************************************************************)
NoBody == <<>>

Ok(body) == [kind |-> "ok", body |-> body]

Failure(kind) == [kind |-> kind, body |-> NoBody]

FailureKinds == {"badjson", "notfound", "error", "network"}

Failures == {Failure(k) : k \in FailureKinds}

\* fetch resolved (did not reject)
Resolved(resp) == resp.kind # "network"

\* response.ok
ResponseOk(resp) == resp.kind \in {"ok", "badjson"}

\* await response.json() resolves
JsonParses(resp) == resp.kind = "ok"

Returned(value, requests) ==
    [threw |-> FALSE, value |-> value, requests |-> requests]

Threw(requests) == [threw |-> TRUE, value |-> <<>>, requests |-> requests]

(***************************************************************************)
(* Terminology gateway (lib/api.ts).  Each operation is a function of the  *)
(* credential, its arguments and the responses the remote services give to *)
(* the requests it issues; its outcome says whether it threw, the value it *)
(* returned and how many network requests it issued.                       *)
(***************************************************************************)
SearchMaxPages == 4

\* uniqueResults.sort((a, b) => a.name.localeCompare(b.name)): a stable sort;
\* a name is modelled by its collation rank
RECURSIVE InsertByName(_, _)
InsertByName(sorted, item) ==
    IF sorted = <<>> THEN <<item>>
    ELSE IF item.name < Head(sorted).name THEN <<item>> \o sorted
    ELSE <<Head(sorted)>> \o InsertByName(Tail(sorted), item)

RECURSIVE SortByName(_)
SortByName(items) ==
    IF items = <<>> THEN <<>>
    ELSE InsertByName(SortByName(SubSeq(items, 1, Len(items) - 1)), items[Len(items)])

\* resps[p] answers the request for page p; the body of a search response is
\* data.result?.results (<<>> when it is missing)
searchUMLS(key, sortBy, resps) ==
    IF KeyNotConfigured(key) THEN Threw(0)
    ELSE IF \E p \in 1..SearchMaxPages :
                ~Resolved(resps[p]) \/ ~ResponseOk(resps[p]) \/ ~JsonParses(resps[p])
    THEN Threw(SearchMaxPages)
    ELSE LET allResults == Flatten([p \in 1..SearchMaxPages |-> resps[p].body])
             transformedResults == SelectSeq(allResults, LAMBDA r : r.ui # "NONE")
             uniqueResults ==
                 MapValues([i \in 1..Len(transformedResults) |-> transformedResults[i].ui],
                           transformedResults)
         IN  Returned(IF sortBy = "alphabetical" THEN SortByName(uniqueResults)
                      ELSE uniqueResults,
                      SearchMaxPages)

\* the atom post-processing of getConceptDetails
ProcessAtom(atom) ==
    IF StartsWithHttp(atom.code)
    THEN [actualCode |-> LastSegment(atom.code), codeUrl |-> atom.code] @@ atom
    ELSE [actualCode |-> atom.code, codeUrl |-> EmptyText] @@ atom

\* the body of the concept response is <<conceptData.result>> (<<>> when it is
\* missing), the body of the atoms response is atomsData.result || []
getConceptDetails(key, conceptResp, atomsResp) ==
    IF KeyNotConfigured(key) THEN Threw(0)
    ELSE IF ~Resolved(conceptResp) \/ ~Resolved(atomsResp) THEN Threw(2)
    ELSE IF ~ResponseOk(conceptResp) \/ ~ResponseOk(atomsResp) THEN Threw(2)
    ELSE IF ~JsonParses(conceptResp) \/ ~JsonParses(atomsResp) THEN Threw(2)
    ELSE Returned([concept |-> conceptResp.body,
                   atoms |-> [i \in 1..Len(atomsResp.body) |->
                                  ProcessAtom(atomsResp.body[i])]],
                  2)

\* getAncestors with every failed response normalised to the empty result
getAncestorsSwallowing(key, resp) ==
    IF KeyNotConfigured(key) THEN Threw(0)
    ELSE IF ~Resolved(resp) \/ ~ResponseOk(resp) \/ ~JsonParses(resp)
         THEN Returned(<<>>, 1)
    ELSE Returned(resp.body, 1)

getAncestors(key, resp) ==
    IF KeyNotConfigured(key) THEN Threw(0)
    ELSE IF ~Resolved(resp) THEN Threw(1)
    ELSE IF ~ResponseOk(resp)
         THEN IF resp.kind = "notfound" THEN Returned(<<>>, 1) ELSE Threw(1)
    ELSE IF ~JsonParses(resp) THEN Threw(1)
    ELSE Returned(resp.body, 1)

\* related.json of the drug-relation service: the body is the sequence of
\* concept groups, each the sequence of its conceptProperties
getRxNormDescendants(resp) ==
    IF ~Resolved(resp) THEN Returned(<<>>, 1)
    ELSE IF ~ResponseOk(resp) THEN Returned(<<>>, 1)
    ELSE IF ~JsonParses(resp) THEN Returned(<<>>, 1)
    ELSE LET concepts == Flatten(resp.body)
         IN  Returned([i \in 1..Len(concepts) |->
                          [ui |-> concepts[i].rxcui, code |-> concepts[i].rxcui]],
                      1)

MaxPageNumber == 20

\* the remote service answers page n with pages[n]; past the end of the script
\* it has nothing more to serve
ServerPage(pages, n) == IF n <= Len(pages) THEN pages[n] ELSE Ok(<<>>)

\* the paging loop without the 404 case: every non-2xx status throws
RECURSIVE DescendantPagesNo404(_, _, _)
DescendantPagesNo404(pages, pageNumber, allDescendants) ==
    LET resp == ServerPage(pages, pageNumber)
    IN  IF ~Resolved(resp) \/ ~ResponseOk(resp) \/ ~JsonParses(resp)
        THEN Threw(pageNumber)
        ELSE IF Len(resp.body) = 0 THEN Returned(allDescendants, pageNumber)
        ELSE IF Len(resp.body) < PageSize
             THEN Returned(allDescendants \o resp.body, pageNumber)
        ELSE IF pageNumber + 1 > MaxPageNumber
             THEN Returned(allDescendants \o resp.body, pageNumber)
        ELSE DescendantPagesNo404(pages, pageNumber + 1, allDescendants \o resp.body)

\* the paging loop with the page limit tested before the increment
RECURSIVE DescendantPagesOneMore(_, _, _)
DescendantPagesOneMore(pages, pageNumber, allDescendants) ==
    LET resp == ServerPage(pages, pageNumber)
    IN  IF ~Resolved(resp) THEN Threw(pageNumber)
        ELSE IF ~ResponseOk(resp)
             THEN IF resp.kind = "notfound" THEN Returned(allDescendants, pageNumber)
                  ELSE Threw(pageNumber)
        ELSE IF ~JsonParses(resp) THEN Threw(pageNumber)
        ELSE IF Len(resp.body) = 0 THEN Returned(allDescendants, pageNumber)
        ELSE IF Len(resp.body) < PageSize
             THEN Returned(allDescendants \o resp.body, pageNumber)
        ELSE IF pageNumber > MaxPageNumber
             THEN Returned(allDescendants \o resp.body, pageNumber)
        ELSE DescendantPagesOneMore(pages, pageNumber + 1, allDescendants \o resp.body)

\* the paging loop of getDescendants, entered with pageNumber and the
\* descendants fetched so far
RECURSIVE DescendantPages(_, _, _)
DescendantPages(pages, pageNumber, allDescendants) ==
    LET resp == ServerPage(pages, pageNumber)
    IN  IF ~Resolved(resp) THEN Threw(pageNumber)
        ELSE IF ~ResponseOk(resp)
             THEN IF resp.kind = "notfound" THEN Returned(allDescendants, pageNumber)
                  ELSE Threw(pageNumber)
        ELSE IF ~JsonParses(resp) THEN Threw(pageNumber)
        ELSE IF Len(resp.body) = 0 THEN Returned(allDescendants, pageNumber)
        ELSE IF Len(resp.body) < PageSize
             THEN Returned(allDescendants \o resp.body, pageNumber)
        ELSE IF pageNumber + 1 > MaxPageNumber
             THEN Returned(allDescendants \o resp.body, pageNumber)
        ELSE DescendantPages(pages, pageNumber + 1, allDescendants \o resp.body)

\* for RXNORM pages[1] is the response of the drug-relation service
getDescendants(key, vocabulary, pages) ==
    IF KeyNotConfigured(key) THEN Threw(0)
    ELSE IF vocabulary = "RXNORM" THEN getRxNormDescendants(ServerPage(pages, 1))
    ELSE DescendantPages(pages, 1, <<>>)

(***************************************************************************)
(* Drug -> product mapping.  An attribute is [attributeName,              *)
(* attributeValue]; a product code record is [code, source].               *)
(***************************************************************************)
Digits == {"0", "1", "2", "3", "4", "5", "6", "7", "8", "9"}

\* the characters of the attribute values the model draws from
CharsOf(value) ==
    CASE value = "00071015523" ->
             <<"0", "0", "0", "7", "1", "0", "1", "5", "5", "2", "3">>
      [] value = "0071-0155-23" ->
             <<"0", "0", "7", "1", "-", "0", "1", "5", "5", "-", "2", "3">>
      [] value = "ABC123" -> <<"A", "B", "C", "1", "2", "3">>
      [] value = "123456789" -> <<"1", "2", "3", "4", "5", "6", "7", "8", "9">>
      [] value = "" -> <<>>

\* attrName.toUpperCase().includes('NDC') || attrName === 'NDC' || ...
isNdcAttribute(attrName) == attrName \in {"NDC", "RXNORM_NDC", "ndc9"}

\* the test on the value as it is, dashes included
isNdcFormatKeepingDashes(attrValue) ==
    LET cleanValue == CharsOf(attrValue)
    IN  /\ Len(cleanValue) \in {10, 11}
        /\ \A i \in 1..Len(cleanValue) : cleanValue[i] \in Digits

\* /^\d{10,11}$/.test(attrValue.replace(/-/g, ''))
isNdcFormat(attrValue) ==
    LET cleanValue == SelectSeq(CharsOf(attrValue), LAMBDA ch : ch # "-")
    IN  /\ Len(cleanValue) \in {10, 11}
        /\ \A i \in 1..Len(cleanValue) : cleanValue[i] \in Digits

CodesOf(records) == {records[i].code : i \in 1..Len(records)}

\* the attribute loop of getRxNormAttributesNDC; ndcSet is the set of the codes
\* of allNdcCodes
RECURSIVE NdcFromAttributes(_, _, _)
NdcFromAttributes(results, source, allNdcCodes) ==
    IF results = <<>> THEN allNdcCodes
    ELSE LET attr == Head(results)
             take == /\ isNdcAttribute(attr.attributeName) \/ isNdcFormat(attr.attributeValue)
                     /\ attr.attributeValue # ""
                     /\ Plain(attr.attributeValue) \notin CodesOf(allNdcCodes)
         IN  NdcFromAttributes(
                 Tail(results), source,
                 IF take
                 THEN Append(allNdcCodes,
                             [code |-> Plain(attr.attributeValue), source |-> source])
                 ELSE allNdcCodes)

getRxNormAttributesNDC(key, hasCui, rxnormResp, cuiResp) ==
    IF KeyNotConfigured(key) THEN Threw(0)
    ELSE IF ~Resolved(rxnormResp) THEN Returned(<<>>, 1)
    ELSE IF ResponseOk(rxnormResp) /\ ~JsonParses(rxnormResp) THEN Returned(<<>>, 1)
    ELSE LET fromSource ==
                 IF ResponseOk(rxnormResp)
                 THEN NdcFromAttributes(rxnormResp.body, "umls_rxnorm_attributes", <<>>)
                 ELSE <<>>
         IN  IF ~hasCui THEN Returned(fromSource, 1)
             ELSE IF ~Resolved(cuiResp) THEN Returned(fromSource, 2)
             ELSE IF ResponseOk(cuiResp) /\ ~JsonParses(cuiResp)
                  THEN Returned(fromSource, 2)
             ELSE IF ResponseOk(cuiResp)
                  THEN Returned(NdcFromAttributes(cuiResp.body, "umls_cui_attributes",
                                                  fromSource), 2)
             ELSE Returned(fromSource, 2)

\* the merge without ndcSet: every record is pushed
AppendAllCodes(allNdcCodes, list) == allNdcCodes \o list

\* for (const ndc of list) if (!ndcSet.has(ndc.code)) { ndcSet.add; push }
RECURSIVE AppendNewCodes(_, _)
AppendNewCodes(allNdcCodes, list) ==
    IF list = <<>> THEN allNdcCodes
    ELSE AppendNewCodes(
             IF Head(list).code \in CodesOf(allNdcCodes) THEN allNdcCodes
             ELSE Append(allNdcCodes, Head(list)),
             Tail(list))

\* the body of the ndcs.json response is the list of its NDC texts (<<>> when
\* there is no ndcGroup or no list)
getRxNormToNDC(key, hasCui, rxnavResp, rxnormResp, cuiResp) ==
    LET ndcList == IF Resolved(rxnavResp) /\ ResponseOk(rxnavResp) /\ JsonParses(rxnavResp)
                   THEN rxnavResp.body ELSE <<>>
        fromRxNav == AppendNewCodes(
                         <<>>, [i \in 1..Len(ndcList) |->
                                   [code |-> Plain(ndcList[i]), source |-> "rxnav"]])
        attributeNdcs == getRxNormAttributesNDC(key, hasCui, rxnormResp, cuiResp)
    IN  IF attributeNdcs.threw
        THEN Returned(fromRxNav, 1 + attributeNdcs.requests)
        ELSE Returned(AppendNewCodes(fromRxNav, attributeNdcs.value),
                      1 + attributeNdcs.requests)

(***************************************************************************)
(* What the remote services may answer.                                    *)
(***************************************************************************)
Codes == {"1", "2", "3"}

ConceptIds == {"C1", "C2"}

\* search results: the sentinel, one concept under two names, another concept
SearchPool ==
    {[ui |-> "NONE", name |-> 0], [ui |-> "C1", name |-> 2],
     [ui |-> "C1", name |-> 1], [ui |-> "C2", name |-> 1]}

SearchResponses == Failures \cup {Ok(b) : b \in SeqsUpTo(SearchPool, 1)}

ConceptResponses ==
    Failures \cup {Ok(<<>>)} \cup {Ok(<<[ui |-> c, name |-> c]>>) : c \in ConceptIds}

\* atoms of a concept: a plain code, a URL-shaped code, a code with a "/"
\* that is no URL
AtomsOf(vocabulary) ==
    {[ui |-> "A" \o c, code |-> Plain(c), rootSource |-> vocabulary] : c \in Codes}
    \cup {[ui |-> "A1", code |-> UrlOf(vocabulary, "1"), rootSource |-> vocabulary],
          [ui |-> "A4", code |-> UrlOf(vocabulary, "G43.909"), rootSource |-> vocabulary],
          [ui |-> "A5", code |-> <<"10", "2">>, rootSource |-> vocabulary]}

GwAtomsResponses ==
    Failures \cup {Ok(b) : b \in SeqsUpTo(AtomsOf("ICD10CM"), MaxAtoms)}

\* hierarchy nodes: the code in ui, the code as a URL, the code only in the code
\* field, a URL with an empty last segment
NodesOf(vocabulary) ==
    {[ui |-> Plain("1"), code |-> Plain("1")],
     [ui |-> Plain("2"), code |-> Plain("2")],
     [ui |-> UrlOf(vocabulary, "3"), code |-> EmptyText],
     [ui |-> EmptyText, code |-> Plain("3")],
     [ui |-> UrlEndingInSlash(vocabulary), code |-> EmptyText]}

\* one page of the hierarchy service: nodes, none of them twice
NodePages(vocabulary) ==
    {b \in SeqsUpTo(NodesOf(vocabulary), PageSize) :
        \A i, j \in 1..Len(b) : b[i] = b[j] => i = j}

PlainNodes == {[ui |-> Plain(c), code |-> Plain(c)] : c \in Codes}

GwNodeResponses == Failures \cup {Ok(b) : b \in SeqsUpTo(PlainNodes, PageSize)}

\* page n of a hierarchy that does not end: PageSize nodes of one code, the
\* code changing from page to page
FullPage(n) ==
    Ok([x \in 1..PageSize |->
           [ui |-> Plain(IF n % 2 = 1 THEN "1" ELSE "2"),
            code |-> Plain(IF n % 2 = 1 THEN "1" ELSE "2")]])

\* full pages up to and past the page limit, the last of them possibly
\* followed by a failure
LongScripts ==
    {[n \in 1..k |-> FullPage(n)] : k \in (MaxPageNumber - 1)..(MaxPageNumber + 1)}
    \cup {[n \in 1..MaxPageNumber |->
              IF n = MaxPageNumber THEN f ELSE FullPage(n)] : f \in Failures}

\* related.json: concept groups of the drug-relation service
RxGroups ==
    {<<>>} \cup {<<<<[rxcui |-> Plain(c)]>>>> : c \in Codes}
    \cup {<<<<[rxcui |-> Plain("1")]>>, <<[rxcui |-> Plain("2")], [rxcui |-> Plain("1")]>>>>}

RxRelatedResponses == Failures \cup {Ok(g) : g \in RxGroups}

NdcTexts == {"00071015523", "0071-0155-23"}

RxNavNdcResponses == Failures \cup {Ok(b) : b \in SeqsUpTo(NdcTexts, 1)}

AttributePool ==
    {[attributeName |-> "NDC", attributeValue |-> "00071015523"],
     [attributeName |-> "TTY", attributeValue |-> "0071-0155-23"],
     [attributeName |-> "TTY", attributeValue |-> "00071015523"],
     [attributeName |-> "TTY", attributeValue |-> "ABC123"],
     [attributeName |-> "ndc9", attributeValue |-> "123456789"],
     [attributeName |-> "NDC", attributeValue |-> ""]}

AttributeResponses == Failures \cup {Ok(b) : b \in SeqsUpTo(AttributePool, 1)}

(***************************************************************************)
(* The gateway on its own: any operation, called with any credential and   *)
(* answered in any way.  gw records the last call: the operation, the      *)
(* kinds of the responses to the requests it issued, and its outcome.  The  *)
(* gateway keeps no state between calls, so a behaviour makes one call.    *)
(***************************************************************************)
GwIdle ==
    [op |-> "none", vocabulary |-> "", kinds |-> <<>>, resps |-> <<>>,
     outcome |-> Returned(<<>>, 0)]

GwCalled(op, vocabulary, resps, outcome) ==
    [op |-> op, vocabulary |-> vocabulary,
     kinds |-> [i \in 1..outcome.requests |-> ServerPage(resps, i).kind],
     resps |-> [i \in 1..outcome.requests |-> ServerPage(resps, i)],
     outcome |-> outcome]

GwSearch ==
    /\ gw = GwIdle
    /\ UNCHANGED <<apiKey, walk, rec, build>>
    /\ \E sortBy \in {"relevance", "alphabetical"} :
       \E resps \in [1..SearchMaxPages -> SearchResponses] :
        gw' = GwCalled("searchUMLS", "", resps, searchUMLS(apiKey, sortBy, resps))

GwConceptDetails ==
    /\ gw = GwIdle
    /\ UNCHANGED <<apiKey, walk, rec, build>>
    /\ \E conceptResp \in ConceptResponses, atomsResp \in GwAtomsResponses :
        gw' = GwCalled("getConceptDetails", "ICD10CM", <<conceptResp, atomsResp>>,
                       getConceptDetails(apiKey, conceptResp, atomsResp))

GwAncestors ==
    /\ gw = GwIdle
    /\ UNCHANGED <<apiKey, walk, rec, build>>
    /\ \E resp \in GwNodeResponses :
        gw' = GwCalled("getAncestors", "SNOMEDCT_US", <<resp>>, getAncestors(apiKey, resp))

GwDescendants ==
    /\ gw = GwIdle
    /\ UNCHANGED <<apiKey, walk, rec, build>>
    /\ \E pages \in SeqsUpTo(GwNodeResponses, 2) \cup LongScripts :
        gw' = GwCalled("getDescendants", "SNOMEDCT_US", pages,
                       getDescendants(apiKey, "SNOMEDCT_US", pages))

GwRxNormDescendants ==
    /\ gw = GwIdle
    /\ UNCHANGED <<apiKey, walk, rec, build>>
    /\ \E resp \in RxRelatedResponses :
        gw' = GwCalled("getDescendants", "RXNORM", <<resp>>,
                       getDescendants(apiKey, "RXNORM", <<resp>>))

GwRxNormToNDC ==
    /\ gw = GwIdle
    /\ UNCHANGED <<apiKey, walk, rec, build>>
    /\ \E hasCui \in BOOLEAN :
       \E rxnavResp \in RxNavNdcResponses :
       \E rxnormResp \in AttributeResponses, cuiResp \in AttributeResponses :
        gw' = GwCalled("getRxNormToNDC", "RXNORM", <<rxnavResp, rxnormResp, cuiResp>>,
                       getRxNormToNDC(apiKey, hasCui, rxnavResp, rxnormResp, cuiResp))

NoWalk == [status |-> "idle"]
NoRec == [status |-> "idle"]
\* the component before any build: loadingBuild false, no error, buildData null
NoBuild ==
    [pc |-> "idle", buildDomain |-> "", vocabulary |-> "", code |-> EmptyText,
     lookup |-> "none", allCUIs |-> <<>>, k |-> 0, crossVocabResults |-> <<>>,
     i |-> 0, descendants |-> <<>>, j |-> 0, descCui |-> "",
     processedCodesInExpansion |-> {}, hierarchicalExpansion |-> <<>>,
     allCodesBeforeDedup |-> <<>>, rxnormCodes |-> <<>>, n |-> 0,
     ndcResults |-> <<>>, error |-> "", loadingBuild |-> FALSE,
     buildData |-> <<>>, requested |-> FALSE, failedIn |-> {},
     walkedRoots |-> <<>>, reconciled |-> <<>>, ndcCalls |-> <<>>,
     clickedNode |-> <<>>, estimatedDescendants |-> 0, showWarningModal |-> FALSE,
     pendingBuildNode |-> <<>>, confirmed |-> FALSE, servedConcepts |-> <<>>,
     buildFilterText |-> <<>>, buildFilterVocabularies |-> <<>>,
     filteredCodes |-> <<>>, exportContent |-> <<>>, lastEvent |-> "none",
     selectedAtoms |-> <<>>, shownAtoms |-> <<>>, conversions |-> <<>>,
     startedFrom |-> <<>>, walkAnswers |-> <<>>, buildProgress |-> <<>>,
     invocations |-> <<>>]

GwInit ==
    /\ apiKey \in {KeyMissing, KeyPlaceholder, KeyValid}
    /\ gw = GwIdle
    /\ walk = NoWalk
    /\ rec = NoRec
    /\ build = NoBuild

GwNext ==
    \/ GwSearch
    \/ GwConceptDetails
    \/ GwAncestors
    \/ GwDescendants
    \/ GwRxNormDescendants
    \/ GwRxNormToNDC

GwSpec == GwInit /\ [][GwNext]_vars

(***************************************************************************)
(* getAllDescendantsFromSourceCode.  walk.stack holds the frames of the    *)
(* recursion, the innermost last; the innermost frame awaits               *)
(* getDescendants(vocabulary, code), the others await the recursive call   *)
(* made for the head of their loop.  walk.visited is the visited set the   *)
(* frames share.  Kept for the properties: walk.calls, the codes           *)
(* getDescendants was called for, in call order; walk.edges, the           *)
(* (code, descendant code) pairs the service has served; walk.requests,    *)
(* the network requests issued.                                            *)
(***************************************************************************)
Frame(code) == [code |-> code, todo |-> <<>>, out |-> <<>>]

Top(w) == w.stack[Len(w.stack)]

SetTop(w, frame) == [w EXCEPT !.stack[Len(w.stack)] = frame]

\* let descCode = desc.ui || desc.code; a URL gives its last part
DescCode(desc) ==
    LET descCode == OrElse(desc.ui, desc.code)
    IN  IF StartsWithHttp(descCode) THEN LastSegment(descCode) ELSE descCode

\* visited.add(code) without the insertion
VisitForgetting(visited, code) == visited

\* visited.add(code)
Visit(visited, code) == visited \cup {code}

\* the for loop of the innermost frame, from the head of its todo list up to
\* the next awaited getDescendants call or to the return of the outermost frame
RECURSIVE ResumeLoop(_, _)
ResumeLoop(w, key) ==
    LET frame == Top(w)
    IN  IF frame.todo = <<>>
        THEN \* return allDescendants
             IF Len(w.stack) = 1
             THEN [w EXCEPT !.status = "done", !.stack = <<>>, !.result = frame.out]
             ELSE LET caller == w.stack[Len(w.stack) - 1]
                      popped == [w EXCEPT !.stack = SubSeq(w.stack, 1, Len(w.stack) - 1)]
                  IN  ResumeLoop(
                          SetTop(popped, [caller EXCEPT !.out = caller.out \o frame.out]),
                          key)
        ELSE LET desc == Head(frame.todo)
                 descCode == DescCode(desc)
                 rest == [frame EXCEPT !.todo = Tail(frame.todo)]
             IN  IF Falsy(descCode) \/ descCode \in w.visited
                 THEN ResumeLoop(SetTop(w, rest), key)
                 ELSE LET pushed ==
                              SetTop(w, [rest EXCEPT !.out =
                                  Append(rest.out, [vocabulary |-> w.vocabulary,
                                                    code |-> descCode])])
                          entered == [pushed EXCEPT !.visited = Visit(@, descCode),
                                                    !.calls = Append(@, descCode)]
                      IN  \* the recursive call
                          IF descCode \in pushed.visited
                          THEN ResumeLoop(pushed, key)
                          ELSE IF KeyNotConfigured(key)
                          THEN \* getDescendants throws before any request: the
                               \* recursive call returns []
                               ResumeLoop(entered, key)
                          ELSE [entered EXCEPT !.stack = Append(@, Frame(descCode))]

\* the call getAllDescendantsFromSourceCode(vocabulary, code, visited) up to
\* its first awaited request
StartWalk(key, vocabulary, code, visited) ==
    LET w == [status |-> "running", vocabulary |-> vocabulary, root |-> code,
              stack |-> <<>>, visited |-> visited, result |-> <<>>,
              calls |-> <<>>, edges |-> {}, requests |-> 0]
        returnsEmpty == [w EXCEPT !.status = "done"]
    IN  IF vocabulary = "RXNORM"
        THEN IF KeyNotConfigured(key)
             THEN [returnsEmpty EXCEPT !.calls = <<code>>]
             ELSE [w EXCEPT !.stack = <<Frame(code)>>, !.calls = <<code>>]
        ELSE IF code \in visited THEN returnsEmpty
        ELSE IF KeyNotConfigured(key)
             THEN [returnsEmpty EXCEPT !.visited = Visit(@, code), !.calls = <<code>>]
             ELSE [w EXCEPT !.stack = <<Frame(code)>>, !.visited = Visit(@, code),
                            !.calls = <<code>>]

\* the flat mode: immediateDescendants.map(desc => ({vocabulary, code: desc.code || desc.ui}))
FlatResult(w, outcome) ==
    IF outcome.threw THEN <<>>
    ELSE [i \in 1..Len(outcome.value) |->
             [vocabulary |-> w.vocabulary,
              code |-> OrElse(outcome.value[i].code, outcome.value[i].ui)]]

\* the continuation without the RXNORM special case: every vocabulary recurses
AfterDescendantsRecursing(w, key, outcome) ==
    LET code == Top(w).code
        counted == [w EXCEPT !.requests = @ + outcome.requests]
    IN  IF outcome.threw
        THEN ResumeLoop(SetTop(counted, Frame(code)), key)
        ELSE ResumeLoop(SetTop(counted, [Top(w) EXCEPT !.todo = outcome.value]), key)

\* the continuation in which a failed getDescendants call ends the whole
\* walk, nothing returned
AfterDescendantsAborting(w, key, outcome) ==
    IF outcome.threw
    THEN [w EXCEPT !.status = "done", !.stack = <<>>, !.result = <<>>,
                   !.requests = @ + outcome.requests]
    ELSE ResumeLoop(SetTop([w EXCEPT !.requests = @ + outcome.requests],
                           [Top(w) EXCEPT !.todo = outcome.value]), key)

\* the continuation of the innermost frame when its getDescendants call ends
AfterDescendants(w, key, outcome) ==
    LET code == Top(w).code
        served == IF outcome.threw THEN {}
                  ELSE {<<code, DescCode(outcome.value[i])>> : i \in 1..Len(outcome.value)}
        counted == [w EXCEPT !.requests = @ + outcome.requests,
                             !.edges = @ \cup served]
    IN  IF w.vocabulary = "RXNORM"
        THEN [counted EXCEPT !.status = "done", !.stack = <<>>,
                             !.result = FlatResult(w, outcome)]
        ELSE IF outcome.threw
        THEN \* catch (err) { return [] }
             ResumeLoop(SetTop(counted, Frame(code)), key)
        ELSE ResumeLoop(SetTop(counted, [Top(w) EXCEPT !.todo = outcome.value]), key)

WalkScripts(vocabulary) ==
    IF vocabulary = "RXNORM"
    THEN {<<r>> : r \in RxRelatedResponses}
    ELSE {<<r>> : r \in Failures \cup {Ok(b) : b \in NodePages(vocabulary)}}

\* the response to the getDescendants call in flight
WalkResponse ==
    /\ walk.status = "running"
    /\ \E pages \in WalkScripts(walk.vocabulary) :
          walk' = AfterDescendants(walk, apiKey,
                                   getDescendants(apiKey, walk.vocabulary, pages))
    /\ UNCHANGED <<apiKey, gw, rec, build>>

(***************************************************************************)
(* The walk on its own: one walk from any root.                            *)
(***************************************************************************)
WalkBegin ==
    /\ walk = NoWalk
    /\ \E vocabulary \in {"SNOMEDCT_US", "RXNORM"}, code \in Codes :
          walk' = StartWalk(apiKey, vocabulary, Plain(code), {})
    /\ UNCHANGED <<apiKey, gw, rec, build>>

WalkInit ==
    /\ apiKey \in {KeyMissing, KeyValid}
    /\ gw = GwIdle
    /\ walk = NoWalk
    /\ rec = NoRec
    /\ build = NoBuild

WalkNext == WalkBegin \/ WalkResponse

WalkSpec == WalkInit /\ [][WalkNext]_vars

(***************************************************************************)
(* convertSourceCodesToCUIs (UMLSSearch.tsx): the concept reconciler.  One  *)
(* pair after the other: fetch the source record, then the atoms it points *)
(* to, and add the concept id of the first atom.  rec.i is the loop index, *)
(* rec.awaiting the fetch in flight.  The credential is read and put in    *)
(* the URL but never tested.  Kept for the properties: rec.served, the     *)
(* responses each pair received, in input order; rec.requests.             *)
(***************************************************************************)
\* the first character of a path segment
FirstCharOf(segment) ==
    CASE segment \in {"C1", "C2", "C3", "C4", "CUI"} -> "C"
      [] segment = "A1" -> "A"
      [] segment = "NONE" -> "N"
      [] OTHER -> ""

ConceptUrl(cui) ==
    <<"https:", "", "uts-ws.nlm.nih.gov", "rest", "content", "2025AB", "CUI", cui>>

AtomsUrl(vocabulary, code) == UrlOf(vocabulary, code[1]) \o <<"atoms">>

\* const cui = conceptUri?.split('/').pop()
CuiOfAtom(atom) == LastSegment(atom.concept)[1]

\* cui && cui.startsWith('C')
IsCui(cui) == cui # "" /\ FirstCharOf(cui) = "C"

\* an array in place of the Set: every add appends
SetAddKeepingAll(set, x) == Append(set, x)

\* a Set in insertion order: set.add(x)
SetAdd(set, x) == IF x \in Range(set) THEN set ELSE Append(set, x)

\* the next iteration of the for loop, or return cuis
NextPair(r) ==
    IF r.i < Len(r.input)
    THEN [r EXCEPT !.i = @ + 1, !.awaiting = "source",
                   !.served = Append(@, <<>>)]
    ELSE [r EXCEPT !.status = "done", !.awaiting = "none"]

\* a failure of the pair ends the whole batch
PairFailedAborting(r) == [r EXCEPT !.status = "done", !.awaiting = "none"]

\* catch (error) { console.error(...) } and the else branches that only log
PairFailed(r) == NextPair(r)

\* after await fetch(saiUrl)
SourceFetched(r, resp) ==
    LET got == [r EXCEPT !.requests = @ + 1,
                         !.served[Len(r.served)] = Append(@, resp)]
    IN  IF ~Resolved(resp) \/ ~ResponseOk(resp) \/ ~JsonParses(resp)
        THEN PairFailed(got)
        ELSE IF resp.body = <<>>
        THEN \* saiData.result is undefined: reading .atoms throws
             PairFailed(got)
        ELSE IF resp.body[1].atoms = <<"NONE">>
        THEN \* continue
             NextPair(got)
        ELSE [got EXCEPT !.awaiting = "atoms"]

\* after await fetch(atomsRequestUrl)
AtomsFetched(r, resp) ==
    LET got == [r EXCEPT !.requests = @ + 1,
                         !.served[Len(r.served)] = Append(@, resp)]
    IN  IF ~Resolved(resp) \/ ~ResponseOk(resp) \/ ~JsonParses(resp)
        THEN PairFailed(got)
        ELSE IF Len(resp.body) > 0 /\ IsCui(CuiOfAtom(resp.body[1]))
        THEN NextPair([got EXCEPT !.cuis = SetAdd(@, CuiOfAtom(resp.body[1]))])
        ELSE NextPair(got)

\* the call convertSourceCodesToCUIs(sourceCodes) up to its first fetch
StartRec(sourceCodes) ==
    IF Len(sourceCodes) = 0
    THEN [status |-> "done", input |-> sourceCodes, i |-> 0, awaiting |-> "none",
          cuis |-> <<>>, served |-> <<>>, requests |-> 0]
    ELSE [status |-> "running", input |-> sourceCodes, i |-> 1,
          awaiting |-> "source", cuis |-> <<>>, served |-> <<<<>>>>, requests |-> 0]

\* the source record of a pair: no result, no atoms, the atoms URL
SourceResponses(pair) ==
    Failures \cup {Ok(<<>>), Ok(<<[atoms |-> <<"NONE">>]>>),
                   Ok(<<[atoms |-> AtomsUrl(pair.vocabulary, pair.code)]>>)}

\* a concept reference without an id: its last segment is "CUI"
ConceptCollectionUrl ==
    <<"https:", "", "uts-ws.nlm.nih.gov", "rest", "content", "2025AB", "CUI">>

\* the atoms of a source record: none, one of a concept, one without a
\* concept, one whose concept is not a concept id, one whose concept reference
\* carries no id, two of different concepts
RecAtomsResponses ==
    Failures
    \cup {Ok(<<>>), Ok(<<[concept |-> EmptyText]>>), Ok(<<[concept |-> Plain("A1")]>>),
          Ok(<<[concept |-> ConceptCollectionUrl]>>),
          Ok(<<[concept |-> ConceptUrl("C2")], [concept |-> ConceptUrl("C1")]>>)}
    \cup {Ok(<<[concept |-> ConceptUrl(c)]>>) : c \in ConceptIds}

RecSourceResponse ==
    /\ rec.status = "running"
    /\ rec.awaiting = "source"
    /\ \E resp \in SourceResponses(rec.input[rec.i]) :
          rec' = SourceFetched(rec, resp)
    /\ UNCHANGED <<apiKey, gw, walk, build>>

RecAtomsResponse ==
    /\ rec.status = "running"
    /\ rec.awaiting = "atoms"
    /\ \E resp \in RecAtomsResponses : rec' = AtomsFetched(rec, resp)
    /\ UNCHANGED <<apiKey, gw, walk, build>>

(***************************************************************************)
(* The reconciler on its own: one batch of any pairs.                      *)
(***************************************************************************)
MaxPairs == 2

SourcePairs == {[vocabulary |-> "SNOMEDCT_US", code |-> Plain(c)] : c \in Codes}

RecBegin ==
    /\ rec = NoRec
    /\ \E sourceCodes \in SeqsUpTo(SourcePairs, MaxPairs) :
          rec' = StartRec(sourceCodes)
    /\ UNCHANGED <<apiKey, gw, walk, build>>

RecInit ==
    /\ apiKey \in {KeyMissing, KeyValid}
    /\ gw = GwIdle
    /\ walk = NoWalk
    /\ rec = NoRec
    /\ build = NoBuild

RecNext == RecBegin \/ RecSourceResponse \/ RecAtomsResponse

RecSpec == RecInit /\ [][RecNext]_vars

(***************************************************************************)
(* handleBuildFromHierarchyNode (UMLSSearch.tsx): the build.  build.pc is  *)
(* the await the handler is suspended at: "stage1" (the standard atom      *)
(* lookup), "walk" (the source hierarchy), "reconcile", "target" (the      *)
(* atoms of a concept in the target vocabularies), "expandWalk",           *)
(* "expandSource", "expandAtoms", "expandConcept" (the expansion of one    *)
(* target code), "ndc" (the product codes of one drug code), "ended".      *)
(* The drug attributes parsed from names and the progress display are left *)
(* out.  Kept for the properties: build.lookup, how stage 1 went;          *)
(* build.requested, whether a network request was issued; build.failedIn,  *)
(* the stages in which a response was a failure; build.walkedRoots, the    *)
(* records stage 5 started a walk from; build.reconciled, the descendants  *)
(* stage 5 fetched the source record of; build.ndcCalls, the drug codes    *)
(* getRxNormToNDC was called for.                                          *)
(***************************************************************************)
getDomainFromVocabulary(vocabulary) ==
    CASE vocabulary \in {"RXNORM", "NDC", "CVX", "ATC"} -> "drug"
      [] vocabulary \in {"SNOMEDCT_US", "ICD10CM", "ICD9CM"} -> "condition"
      [] vocabulary = "LNC" -> "measurement"
      [] vocabulary \in {"CPT", "HCPCS", "ICD10PCS", "ICD9PCS"} -> "procedure"
      [] OTHER -> "condition"

\* a text as the string a template literal gives
RECURSIVE Join(_)
Join(text) == IF Len(text) = 1 THEN text[1] ELSE text[1] \o "/" \o Join(Tail(text))

\* `${vocabulary}-${code}`
CodeKey(vocabulary, code) == vocabulary \o "-" \o Join(code)

KeysOf(items) == [x \in 1..Len(items) |-> CodeKey(items[x].vocabulary, items[x].code)]

\* the dedup without the Map: every record is kept
UniqueCodesKeepingAll(allCodesBeforeDedup) == allCodesBeforeDedup

\* the dedup keeping the first record of a key
UniqueCodesKeepingFirst(allCodesBeforeDedup) ==
    LET keys == KeysOf(allCodesBeforeDedup)
        firsts == SelectSeq([x \in 1..Len(keys) |-> x],
                            LAMBDA x : IsFirstOccurrence(keys, x))
    IN  [x \in 1..Len(firsts) |-> allCodesBeforeDedup[firsts[x]]]

\* Array.from(new Map(allCodesBeforeDedup.map(item =>
\*     [`${item.vocabulary}-${item.code}`, item])).values())
UniqueCodes(allCodesBeforeDedup) ==
    MapValues(KeysOf(allCodesBeforeDedup), allCodesBeforeDedup)

\* a finally block that leaves the progress indicator as it is
FinallyKeepingProgress(b) == [b EXCEPT !.pc = "ended", !.loadingBuild = FALSE]

\* finally { setLoadingBuild(false); setBuildProgress(null); }
Finally(b) ==
    [b EXCEPT !.pc = "ended", !.loadingBuild = FALSE, !.buildProgress = <<>>]

\* catch (err) { setError('Failed to build code set') } finally { ... }
Caught(b) == Finally([b EXCEPT !.error = "Failed to build code set"])

\* the dedup, setBuildData and the finally block
Finish(b) ==
    LET uniqueCodes == UniqueCodes(b.allCodesBeforeDedup)
    IN  Finally([b EXCEPT !.buildProgress = <<"Complete!">>,
                          !.buildData = <<[vocabulary |-> b.vocabulary,
                                           buildDomain |-> b.buildDomain,
                                           allCodes |-> uniqueCodes,
                                           totalCount |-> Len(uniqueCodes),
                                           sourceHierarchyCount |-> Len(b.allCUIs)]>>])

\* the phase setBuildProgress shows while a request of a stage is awaited
ProgressPhase(pc) ==
    CASE pc = "stage1" -> "Finding standard code for comprehensive coverage..."
      [] pc = "walk" -> "Fetching descendants from hierarchy..."
      [] pc = "reconcile" -> "Converting to CUIs..."
      [] pc = "target" -> "Fetching codes from target vocabularies..."
      [] pc = "ndc" -> "Fetching NDC codes for RxNorm concepts..."
      [] OTHER -> "Expanding hierarchies in target vocabularies..."

\* the request of an await leaves
Awaiting(b, pc) ==
    [b EXCEPT !.pc = pc, !.requested = TRUE, !.buildProgress = <<ProgressPhase(pc)>>]

\* for (const rxnormCode of rxnormCodes): up to the next getRxNormToNDC call
NdcLoop(b) ==
    IF b.n > Len(b.rxnormCodes)
    THEN Finish([b EXCEPT !.allCodesBeforeDedup = @ \o b.ndcResults])
    ELSE Awaiting([b EXCEPT !.ndcCalls = Append(@, b.rxnormCodes[b.n].code)], "ndc")

\* the drug records without the Map: every record is kept
RxnormCodesKeepingAll(allRxnormCodes) == allRxnormCodes

\* Array.from(new Map(allRxnormCodes.map(item => [item.code, item])).values())
RxnormCodes(allRxnormCodes) ==
    MapValues([x \in 1..Len(allRxnormCodes) |-> allRxnormCodes[x].code], allRxnormCodes)

\* let allCodesBeforeDedup = [...crossVocabResults, ...hierarchicalExpansion]
\* and the drug codes of it, one per code
StartNdc(b) ==
    LET merged == b.crossVocabResults \o b.hierarchicalExpansion
        allRxnormCodes == SelectSeq(merged, LAMBDA item : item.vocabulary = "RXNORM")
    IN  IF "NDC" \in Range(BUILD_DOMAIN_VOCABULARIES[b.buildDomain])
        THEN NdcLoop([b EXCEPT !.allCodesBeforeDedup = merged,
                               !.rxnormCodes = RxnormCodes(allRxnormCodes), !.n = 1])
        ELSE Finish([b EXCEPT !.allCodesBeforeDedup = merged])

\* after await getRxNormToNDC(rxnormCode.code, rxnormCode.cui)
AfterNdc(b, outcome) ==
    LET rxnormCode == b.rxnormCodes[b.n]
        ndcCodes == IF outcome.threw THEN <<>> ELSE outcome.value
        mapped == [x \in 1..Len(ndcCodes) |->
                      [cui |-> rxnormCode.cui, code |-> ndcCodes[x].code,
                       vocabulary |-> "NDC", aui |-> ndcCodes[x].code[1],
                       sourceRxcui |-> Join(rxnormCode.code)]]
    IN  NdcLoop([b EXCEPT !.ndcResults = @ \o mapped, !.n = @ + 1])

\* processedCodesInExpansion.add(key) without the insertion
MarkProcessedForgetting(processed, key) == processed

\* processedCodesInExpansion.add(key)
MarkProcessed(processed, key) == processed \cup {key}

\* the handler with the walk and the reconciliation it awaits
Machine(b, w, r) == [build |-> b, walk |-> w, rec |-> r]

Failed(m, stage) == [m EXCEPT !.build.failedIn = @ \cup {stage}]

\* stage 5, the expansion of the target codes.  ExpandLoop is the outer for
\* loop from crossVocabResults[i] up to the next await, DescLoop the loop over
\* the descendants of crossVocabResults[i] from descendants[j].
RECURSIVE ExpandLoop(_, _), DescLoop(_, _)
ExpandLoop(m, key) ==
    LET b == m.build
    IN  IF b.i > Len(b.crossVocabResults)
        THEN [m EXCEPT !.build = StartNdc(b)]
        ELSE LET result == b.crossVocabResults[b.i]
                 codeKey == CodeKey(result.vocabulary, result.code)
                 marked == [b EXCEPT !.processedCodesInExpansion =
                                         MarkProcessed(@, codeKey)]
                 added == [marked EXCEPT !.walkedRoots =
                                             Append(@, [vocabulary |-> result.vocabulary,
                                                        code |-> result.code])]
                 w == StartWalk(key, result.vocabulary, result.code, {})
             IN  IF codeKey \in b.processedCodesInExpansion
                 THEN ExpandLoop([m EXCEPT !.build.i = @ + 1], key)
                 ELSE IF result.vocabulary \notin HIERARCHICAL_VOCABULARIES
                 THEN ExpandLoop([m EXCEPT !.build = [marked EXCEPT !.i = @ + 1]], key)
                 ELSE IF w.status = "done"
                 THEN DescLoop([m EXCEPT !.build = [added EXCEPT !.descendants = w.result,
                                                                 !.j = 1]],
                               key)
                 ELSE [m EXCEPT !.build = Awaiting(added, "expandWalk"), !.walk = w]

DescLoop(m, key) ==
    LET b == m.build
    IN  IF b.j > Len(b.descendants)
        THEN ExpandLoop([m EXCEPT !.build.i = @ + 1, !.build.descendants = <<>>,
                                  !.build.j = 0],
                        key)
        ELSE LET desc == b.descendants[b.j]
                 descCodeKey == CodeKey(desc.vocabulary, desc.code)
             IN  IF descCodeKey \in b.processedCodesInExpansion
                 THEN DescLoop([m EXCEPT !.build.j = @ + 1], key)
                 ELSE [m EXCEPT !.build =
                          Awaiting([b EXCEPT !.processedCodesInExpansion =
                                                 MarkProcessed(@, descCodeKey),
                                             !.reconciled =
                                                 Append(@, [vocabulary |-> desc.vocabulary,
                                                            code |-> desc.code])],
                                   "expandSource")]

\* the inner catch and the branches that fall through: the next descendant
NextDesc(m, key) == DescLoop([m EXCEPT !.build.j = @ + 1, !.build.descCui = ""], key)

\* after the walk of crossVocabResults[i] returns its descendants
AfterExpandWalk(m, key, descendants) ==
    DescLoop([m EXCEPT !.build.descendants = descendants, !.build.j = 1,
                       !.walk = NoWalk],
             key)

\* after await fetch(saiUrl): saiData.result.atoms is fetched whatever it is
AfterExpandSource(m, key, resp) ==
    IF ~Resolved(resp) \/ ~ResponseOk(resp) \/ ~JsonParses(resp) \/ resp.body = <<>>
    THEN NextDesc(Failed(m, "expand"), key)
    ELSE [m EXCEPT !.build = Awaiting(m.build, "expandAtoms")]

\* after await fetch(`${atomsUrl}?apiKey=${apiKey}`)
AfterExpandAtoms(m, key, resp) ==
    IF ~Resolved(resp) \/ ~ResponseOk(resp) \/ ~JsonParses(resp)
    THEN NextDesc(Failed(m, "expand"), key)
    ELSE IF Len(resp.body) > 0 /\ IsCui(CuiOfAtom(resp.body[1]))
    THEN IF KeyNotConfigured(key)
         THEN \* getConceptDetails throws before any request
              NextDesc(m, key)
         ELSE [m EXCEPT !.build = Awaiting([m.build EXCEPT !.descCui =
                                                CuiOfAtom(resp.body[1])],
                                           "expandConcept")]
    ELSE NextDesc(m, key)

\* after await getConceptDetails(descCui, [desc.vocabulary])
AfterExpandConcept(m, key, outcome) ==
    LET b == m.build
        desc == b.descendants[b.j]
    IN  IF outcome.threw \/ outcome.value.concept = <<>>
        THEN \* descConceptDetails.concept.name throws without a concept
             NextDesc(Failed(m, "expand"), key)
        ELSE NextDesc([m EXCEPT !.build.hierarchicalExpansion =
                          Append(@, [cui |-> b.descCui, code |-> desc.code,
                                     vocabulary |-> desc.vocabulary, aui |-> "",
                                     sourceRxcui |-> ""])],
                      key)

\* stage 4: for (const cui of allCUIs), up to the next getConceptDetails call
RECURSIVE TargetLoop(_, _)
TargetLoop(m, key) ==
    IF m.build.k > Len(m.build.allCUIs)
    THEN ExpandLoop([m EXCEPT !.build.i = 1], key)
    ELSE IF KeyNotConfigured(key)
    THEN \* getConceptDetails throws before any request: the next CUI
         TargetLoop([m EXCEPT !.build.k = @ + 1], key)
    ELSE [m EXCEPT !.build = Awaiting(m.build, "target")]

\* the catch of one CUI, rethrowing to the handler's catch
CuiFailedRethrowing(m, key) ==
    [m EXCEPT !.build.pc = "ended", !.build.loadingBuild = FALSE,
              !.build.error = "Failed to build code set"]

\* catch (error) { console.error(...) }: continue with the next CUI
CuiFailed(m, key) == TargetLoop([m EXCEPT !.build.k = @ + 1], key)

\* after await getConceptDetails(cui, targetVocabularies)
AfterTarget(m, key, outcome) ==
    LET b == m.build
        cui == b.allCUIs[b.k]
        atoms == outcome.value.atoms
        found == [x \in 1..Len(atoms) |->
                     [cui |-> cui, code |-> OrElse(atoms[x].actualCode, atoms[x].code),
                      vocabulary |-> atoms[x].rootSource, aui |-> atoms[x].ui,
                      sourceRxcui |-> ""]]
    IN  IF outcome.threw THEN CuiFailed(Failed(m, "target"), key)
        ELSE IF Len(atoms) > 0 /\ outcome.value.concept = <<>>
        THEN \* conceptDetails.concept.name throws without a concept
             CuiFailed(Failed(m, "target"), key)
        ELSE TargetLoop([m EXCEPT !.build.crossVocabResults = @ \o found,
                                  !.build.k = @ + 1],
                        key)

\* stage 3 done: const allCUIs = Array.from(cuis)
AfterRec(m, key, cuis) ==
    TargetLoop([m EXCEPT !.build.allCUIs = cuis, !.build.k = 1, !.rec = NoRec], key)

\* stage 2 done: the root and its descendants go to the reconciler
AfterWalk(m, key, allDescendants) ==
    LET allSourceCodes ==
            <<[vocabulary |-> m.build.vocabulary, code |-> m.build.code]>>
            \o allDescendants
    IN  [m EXCEPT !.build = Awaiting(m.build, "reconcile"), !.walk = NoWalk,
                  !.rec = StartRec(allSourceCodes)]

\* getAllDescendantsFromSourceCode(buildVocabulary, buildCode, new Set(), ...)
BeginWalk(m, key) ==
    LET w == StartWalk(key, m.build.vocabulary, m.build.code, {})
    IN  IF w.status = "done" THEN AfterWalk(m, key, w.result)
        ELSE [m EXCEPT !.build = Awaiting(m.build, "walk"), !.walk = w]

\* after await getConceptDetails(cui, [standardVocab]) of stage 1
AfterStandardLookup(m, key, atomsKind, outcome) ==
    IF outcome.threw
    THEN \* Continue with original vocabulary if lookup fails
         BeginWalk([m EXCEPT !.build.lookup = atomsKind], key)
    ELSE IF Len(outcome.value.atoms) > 0
    THEN LET standardAtom == outcome.value.atoms[1]
         IN  BeginWalk([m EXCEPT !.build.lookup = "found",
                                 !.build.vocabulary = standardAtom.rootSource,
                                 !.build.code = OrElse(standardAtom.actualCode,
                                                       standardAtom.code)],
                       key)
    ELSE \* setError(errorMsg); setLoadingBuild(false); setBuildProgress(null);
         \* return, through the finally block
         [m EXCEPT !.build =
             Finally([m.build EXCEPT !.lookup = "empty",
                                     !.loadingBuild = FALSE,
                                     !.buildProgress = <<>>,
                                     !.error = "No standard code found for this concept"])]

\* handleBuildFromHierarchyNode(node, buildDomain) up to its first await; cui is
\* selectedConcept?.concept?.ui, "" when there is none
StartBuild(key, node, buildDomain, cui) ==
    LET standardVocab == getStandardVocabularyForDomain(buildDomain)
        b == [NoBuild EXCEPT !.loadingBuild = TRUE, !.buildDomain = buildDomain,
                             !.buildProgress = <<"Initializing...">>,
                             !.vocabulary = node.rootSource,
                             !.code = OrElse(node.code, node.ui)]
        m == Machine(b, NoWalk, NoRec)
    IN  IF node.rootSource = standardVocab
        THEN BeginWalk([m EXCEPT !.build.lookup = "standard"], key)
        ELSE IF cui = ""
        THEN BeginWalk([m EXCEPT !.build.lookup = "nocui"], key)
        ELSE IF KeyNotConfigured(key)
        THEN BeginWalk([m EXCEPT !.build.lookup = "config"], key)
        ELSE [m EXCEPT !.build = Awaiting(b, "stage1")]

(***************************************************************************)
(* What the remote services answer during a build.                         *)
(***************************************************************************)
BuildRoots ==
    {[ui |-> Plain("A1"), code |-> Plain("1"), rootSource |-> v] :
        v \in {"ICD10CM", "SNOMEDCT_US", "RXNORM"}}

ConceptOf(cui) == Ok(<<[ui |-> cui, name |-> cui]>>)

StandardAtomsResponses(standardVocab) ==
    {Failure("notfound"), Failure("network"), Ok(<<>>),
     Ok(<<[ui |-> "A2", code |-> Plain("1"), rootSource |-> standardVocab]>>),
     Ok(<<[ui |-> "A2", code |-> UrlOf(standardVocab, "2"),
           rootSource |-> standardVocab]>>)}

\* pages of the nodes "1" and "2", none of them twice
BuildNodePages ==
    {b \in SeqsUpTo({[ui |-> Plain(c), code |-> Plain(c)] : c \in {"1", "2"}}, PageSize) :
        \A x, y \in 1..Len(b) : b[x] = b[y] => x = y}

BuildWalkScripts(vocabulary) ==
    IF vocabulary = "RXNORM"
    THEN {<<Failure("error")>>, <<Ok(<<>>)>>, <<Ok(<<<<[rxcui |-> Plain("2")]>>>>)>>}
    ELSE {<<r>> : r \in {Failure("error")} \cup {Ok(b) : b \in BuildNodePages}}

BuildSourceResponses(pair) ==
    {Failure("error"), Ok(<<[atoms |-> AtomsUrl(pair.vocabulary, pair.code)]>>)}

BuildAtomsResponses ==
    {Failure("network")} \cup {Ok(<<[concept |-> ConceptUrl(c)]>>) : c \in ConceptIds}

TargetAtoms(buildDomain) ==
    IF buildDomain = "drug"
    THEN {[ui |-> "A3", code |-> Plain("1"), rootSource |-> "RXNORM"],
          [ui |-> "A4", code |-> Plain("00071015523"), rootSource |-> "NDC"]}
    ELSE {[ui |-> "A3", code |-> Plain("1"), rootSource |-> "SNOMEDCT_US"],
          [ui |-> "A4", code |-> Plain("2"), rootSource |-> "SNOMEDCT_US"]}

\* an atom outside the vocabularies asked for
UnrequestedAtom == [ui |-> "A5", code |-> Plain("1"), rootSource |-> "RXNORM"]

TargetAtomsResponses(buildDomain) ==
    {Failure("error")}
    \cup {Ok(b) : b \in {a \in SeqsUpTo(TargetAtoms(buildDomain), MaxAtoms) :
                            \A x, y \in 1..Len(a) : a[x] = a[y] => x = y}}
    \cup (IF buildDomain = "drug" THEN {} ELSE {Ok(<<UnrequestedAtom>>)})

BuildNdcResponses ==
    [rxnav : {Failure("error"), Ok(<<>>), Ok(<<"00071015523">>)},
     rxnorm : {Failure("notfound"),
               Ok(<<[attributeName |-> "NDC", attributeValue |-> "0071-0155-23"]>>)},
     cui : {Failure("error"), Ok(<<>>)}]

(***************************************************************************)
(* One build.  Each action is one resumption of the handler: the response  *)
(* to the request in flight and the code up to the next await.             *)
(***************************************************************************)
Becomes(m) ==
    /\ build' = m.build
    /\ walk' = m.walk
    /\ rec' = m.rec

Now == Machine(build, walk, rec)

FailedIf(m, failure, stage) == IF failure THEN Failed(m, stage) ELSE m

\* kept for the properties: build.servedConcepts, the last path segments of
\* the concept fields the atoms requests of stage 3 were answered with
ConceptServed(m, resp) ==
    IF resp.kind = "ok" /\ Len(resp.body) > 0
    THEN [m EXCEPT !.build.servedConcepts = Append(@, CuiOfAtom(resp.body[1]))]
    ELSE m

BuildStart ==
    /\ build.pc = "idle"
    /\ \E node \in BuildRoots, cui \in {"", "C1"} :
          Becomes(StartBuild(apiKey, node, getDomainFromVocabulary(node.rootSource), cui))
    /\ UNCHANGED <<apiKey, gw>>

BuildStandardLookupResponse ==
    /\ build.pc = "stage1"
    /\ \E conceptResp \in {Failure("error"), ConceptOf("C1")},
          atomsResp \in StandardAtomsResponses(
                            getStandardVocabularyForDomain(build.buildDomain)) :
          Becomes(AfterStandardLookup(
                      Now, apiKey, atomsResp.kind,
                      getConceptDetails(apiKey, conceptResp, atomsResp)))
    /\ UNCHANGED <<apiKey, gw>>

BuildWalkResponse ==
    /\ build.pc = "walk"
    /\ \E pages \in BuildWalkScripts(walk.vocabulary) :
          LET w == AfterDescendants(walk, apiKey,
                                    getDescendants(apiKey, walk.vocabulary, pages))
              m == FailedIf([Now EXCEPT !.walk = w], pages[1].kind # "ok", "walk")
          IN  Becomes(IF w.status = "done" THEN AfterWalk(m, apiKey, w.result) ELSE m)
    /\ UNCHANGED <<apiKey, gw>>

BuildRecSourceResponse ==
    /\ build.pc = "reconcile"
    /\ rec.awaiting = "source"
    /\ \E resp \in BuildSourceResponses(rec.input[rec.i]) :
          LET r == SourceFetched(rec, resp)
              m == FailedIf([Now EXCEPT !.rec = r], resp.kind # "ok", "reconcile")
          IN  Becomes(IF r.status = "done" THEN AfterRec(m, apiKey, r.cuis) ELSE m)
    /\ UNCHANGED <<apiKey, gw>>

BuildRecAtomsResponse ==
    /\ build.pc = "reconcile"
    /\ rec.awaiting = "atoms"
    /\ \E resp \in BuildAtomsResponses :
          LET r == AtomsFetched(rec, resp)
              m == FailedIf(ConceptServed([Now EXCEPT !.rec = r], resp),
                            resp.kind # "ok", "reconcile")
          IN  Becomes(IF r.status = "done" THEN AfterRec(m, apiKey, r.cuis) ELSE m)
    /\ UNCHANGED <<apiKey, gw>>

BuildTargetResponse ==
    /\ build.pc = "target"
    /\ \E conceptResp \in {Ok(<<>>), ConceptOf(build.allCUIs[build.k])},
          atomsResp \in TargetAtomsResponses(build.buildDomain) :
          Becomes(AfterTarget(Now, apiKey,
                              getConceptDetails(apiKey, conceptResp, atomsResp)))
    /\ UNCHANGED <<apiKey, gw>>

BuildExpandWalkResponse ==
    /\ build.pc = "expandWalk"
    /\ \E pages \in BuildWalkScripts(walk.vocabulary) :
          LET w == AfterDescendants(walk, apiKey,
                                    getDescendants(apiKey, walk.vocabulary, pages))
              m == FailedIf([Now EXCEPT !.walk = w], pages[1].kind # "ok", "expand")
          IN  Becomes(IF w.status = "done" THEN AfterExpandWalk(m, apiKey, w.result)
                      ELSE m)
    /\ UNCHANGED <<apiKey, gw>>

BuildExpandSourceResponse ==
    /\ build.pc = "expandSource"
    /\ \E resp \in BuildSourceResponses(build.descendants[build.j]) :
          Becomes(AfterExpandSource(Now, apiKey, resp))
    /\ UNCHANGED <<apiKey, gw>>

BuildExpandAtomsResponse ==
    /\ build.pc = "expandAtoms"
    /\ \E resp \in BuildAtomsResponses : Becomes(AfterExpandAtoms(Now, apiKey, resp))
    /\ UNCHANGED <<apiKey, gw>>

BuildExpandConceptResponse ==
    /\ build.pc = "expandConcept"
    /\ \E conceptResp \in {Failure("error"), Ok(<<>>), ConceptOf(build.descCui)} :
          Becomes(AfterExpandConcept(
                      Now, apiKey,
                      getConceptDetails(apiKey, conceptResp, Ok(<<>>))))
    /\ UNCHANGED <<apiKey, gw>>

BuildNdcResponse ==
    /\ build.pc = "ndc"
    /\ \E resps \in BuildNdcResponses :
          LET failure == \E f \in {"rxnav", "rxnorm", "cui"} : resps[f].kind # "ok"
              outcome == getRxNormToNDC(apiKey, TRUE, resps.rxnav, resps.rxnorm, resps.cui)
          IN  build' = AfterNdc(IF failure THEN [build EXCEPT !.failedIn = @ \cup {"ndc"}]
                                ELSE build,
                                outcome)
    /\ UNCHANGED <<apiKey, gw, walk, rec>>

BuildInit ==
    /\ apiKey \in {KeyMissing, KeyValid}
    /\ gw = GwIdle
    /\ walk = NoWalk
    /\ rec = NoRec
    /\ build = NoBuild

BuildNext ==
    \/ BuildStart
    \/ BuildStandardLookupResponse
    \/ BuildWalkResponse
    \/ BuildRecSourceResponse
    \/ BuildRecAtomsResponse
    \/ BuildTargetResponse
    \/ BuildExpandWalkResponse
    \/ BuildExpandSourceResponse
    \/ BuildExpandAtomsResponse
    \/ BuildExpandConceptResponse
    \/ BuildNdcResponse

BuildSpec == BuildInit /\ [][BuildNext]_vars

(***************************************************************************)
(* The build button.  handleBuildClick estimates the size of the code set  *)
(* before it builds: above the warning threshold it opens the warning      *)
(* modal and keeps the node in pendingBuildNode; the modal's two buttons   *)
(* are confirmAndBuild and cancelBuild.  build.clickedNode is the node of  *)
(* the click whose estimate is awaited, build.pendingBuildNode holds       *)
(* <<[node, detectedDomain]>> or <<>> for null.  Kept for the properties:  *)
(* build.confirmed, whether confirmAndBuild ran since the last click.  The *)
(* build a click starts is followed up to its first await; its             *)
(* continuation is BuildSpec's.                                            *)
(***************************************************************************)
MaxEstimate == 102

WARNING_THRESHOLD == 100

estimateDescendantCount(outcome) == IF outcome.threw THEN 0 ELSE Len(outcome.value)

\* a click handler without the warning branch
NeverExceeds(estimate) == FALSE

ExceedsWarningThreshold(estimate) == estimate > WARNING_THRESHOLD

\* the state the click flow keeps across the build it starts
StartBuildFrom(b, key, node, buildDomain, cui) ==
    LET m == StartBuild(key, node, buildDomain, cui)
    IN  [m EXCEPT !.build.estimatedDescendants = b.estimatedDescendants,
                  !.build.pendingBuildNode = b.pendingBuildNode,
                  !.build.confirmed = b.confirmed]

\* handleBuildClick up to its await
BeginClick(b, node) ==
    [NoBuild EXCEPT !.pc = "estimate", !.clickedNode = <<node>>,
                    !.vocabulary = node.rootSource,
                    !.code = OrElse(node.code, node.ui),
                    !.loadingBuild = TRUE,
                    !.estimatedDescendants = b.estimatedDescendants]

\* handleBuildClick from the answer of getDescendants on
AfterEstimate(m, key, outcome, cui) ==
    LET node == m.build.clickedNode[1]
        detectedDomain == getDomainFromVocabulary(node.rootSource)
        estimate == estimateDescendantCount(outcome)
        b == [m.build EXCEPT !.estimatedDescendants = estimate, !.clickedNode = <<>>]
    IN  IF ExceedsWarningThreshold(estimate)
        THEN [m EXCEPT !.build =
                 [b EXCEPT !.pc = "warning",
                           !.pendingBuildNode =
                               <<[node |-> node, detectedDomain |-> detectedDomain]>>,
                           !.showWarningModal = TRUE,
                           !.loadingBuild = FALSE]]
        ELSE StartBuildFrom(b, key, node, detectedDomain, cui)

confirmAndBuild(m, key, cui) ==
    LET b == [m.build EXCEPT !.showWarningModal = FALSE, !.confirmed = TRUE]
    IN  IF b.pendingBuildNode # <<>>
        THEN StartBuildFrom(b, key, b.pendingBuildNode[1].node,
                            b.pendingBuildNode[1].detectedDomain, cui)
        ELSE [m EXCEPT !.build = [b EXCEPT !.pc = "idle"]]

cancelBuild(m) ==
    [m EXCEPT !.build = [m.build EXCEPT !.pc = "idle",
                                        !.showWarningModal = FALSE,
                                        !.pendingBuildNode = <<>>,
                                        !.loadingBuild = FALSE]]

\* what the hierarchy service answers to the estimate: a failure, or one page
\* of n children, as long as the service makes it
ChildRun(n) == [x \in 1..n |-> [ui |-> Plain("2"), code |-> Plain("2")]]

RxRun(n) == [x \in 1..n |-> [rxcui |-> Plain("2")]]

EstimatePages(vocabulary) ==
    {<<Failure("error")>>}
    \cup {<<Ok(IF vocabulary = "RXNORM" THEN <<RxRun(n)>> ELSE ChildRun(n))>> :
             n \in 0..MaxEstimate}

ClickBuild ==
    /\ build.pc = "idle"
    /\ ~build.showWarningModal
    /\ \E node \in BuildRoots : build' = BeginClick(build, node)
    /\ UNCHANGED <<apiKey, gw, walk, rec>>

ClickEstimateResponse ==
    /\ build.pc = "estimate"
    /\ \E pages \in EstimatePages(build.vocabulary), cui \in {"", "C1"} :
          Becomes(AfterEstimate(Now, apiKey,
                                getDescendants(apiKey, build.vocabulary, pages), cui))
    /\ UNCHANGED <<apiKey, gw>>

ClickConfirm ==
    /\ build.showWarningModal
    /\ \E cui \in {"", "C1"} : Becomes(confirmAndBuild(Now, apiKey, cui))
    /\ UNCHANGED <<apiKey, gw>>

ClickCancel ==
    /\ build.showWarningModal
    /\ Becomes(cancelBuild(Now))
    /\ UNCHANGED <<apiKey, gw>>

ClickInit == BuildInit

ClickNext ==
    \/ ClickBuild
    \/ ClickEstimateResponse
    \/ ClickConfirm
    \/ ClickCancel

ClickSpec == ClickInit /\ [][ClickNext]_vars

(***************************************************************************)
(* The filter of the build view.  getFilteredBuildCodes is computed at     *)
(* every render from buildData.allCodes, buildFilterText and               *)
(* buildFilterVocabularies; build.filteredCodes is the list the view       *)
(* shows.  Here a string is the sequence of its characters, and a record   *)
(* of allCodes is [cui, code, term, vocabulary].  build.exportContent is   *)
(* the content of the last file exportToTxt wrote.  Kept for the           *)
(* properties: build.lastEvent, the handler that ran last.                 *)
(***************************************************************************)
MaxCodes == 2

LowerOf(ch) ==
    CASE ch = "C" -> "c" [] ch = "D" -> "d" [] ch = "E" -> "e" [] ch = "G" -> "g"
      [] ch = "H" -> "h" [] ch = "I" -> "i" [] ch = "M" -> "m" [] ch = "N" -> "n"
      [] ch = "O" -> "o" [] ch = "S" -> "s" [] ch = "T" -> "t" [] ch = "U" -> "u"
      [] OTHER -> ch

\* a comparison that keeps the case of the text
keepCase(text) == text

toLowerCase(text) == [x \in 1..Len(text) |-> LowerOf(text[x])]

RECURSIVE trimStart(_)
trimStart(text) ==
    IF text # <<>> /\ Head(text) = " " THEN trimStart(Tail(text)) ELSE text

RECURSIVE trimEnd(_)
trimEnd(text) ==
    IF text # <<>> /\ text[Len(text)] = " "
    THEN trimEnd(SubSeq(text, 1, Len(text) - 1))
    ELSE text

trim(text) == trimEnd(trimStart(text))

\* text.includes(search)
includes(text, search) ==
    \E x \in 1..(Len(text) - Len(search) + 1) :
        SubSeq(text, x, x + Len(search) - 1) = search

\* the collation order of the characters of the model's vocabularies and codes
CharRank(ch) ==
    CASE ch = "_" -> 0 [] ch = "0" -> 1 [] ch = "1" -> 2 [] ch = "3" -> 3
      [] ch = "4" -> 4 [] ch = "C" -> 5 [] ch = "D" -> 6 [] ch = "E" -> 7
      [] ch = "G" -> 8 [] ch = "I" -> 9 [] ch = "M" -> 10 [] ch = "N" -> 11
      [] ch = "O" -> 12 [] ch = "S" -> 13 [] ch = "T" -> 14 [] ch = "U" -> 15

\* a.localeCompare(b): -1, 0 or 1
RECURSIVE localeCompare(_, _)
localeCompare(a, b) ==
    IF a = <<>> THEN (IF b = <<>> THEN 0 ELSE -1)
    ELSE IF b = <<>> THEN 1
    ELSE IF CharRank(Head(a)) < CharRank(Head(b)) THEN -1
    ELSE IF CharRank(Head(a)) > CharRank(Head(b)) THEN 1
    ELSE localeCompare(Tail(a), Tail(b))

\* the comparator of the final sort: vocabulary first, then code
CompareCodes(a, b) ==
    LET vocabCompare == localeCompare(a.vocabulary, b.vocabulary)
    IN  IF vocabCompare # 0 THEN vocabCompare ELSE localeCompare(a.code, b.code)

RECURSIVE InsertCode(_, _)
InsertCode(sorted, item) ==
    IF sorted = <<>> THEN <<item>>
    ELSE IF CompareCodes(item, Head(sorted)) < 0 THEN <<item>> \o sorted
    ELSE <<Head(sorted)>> \o InsertCode(Tail(sorted), item)

\* no sort: the items in the order they have
KeepOrder(items) == items

\* Array.prototype.sort is stable
RECURSIVE SortCodes(_)
SortCodes(items) ==
    IF items = <<>> THEN <<>>
    ELSE InsertCode(SortCodes(SubSeq(items, 1, Len(items) - 1)), items[Len(items)])

getFilteredBuildCodes(buildData, buildFilterText, buildFilterVocabularies) ==
    IF buildData = <<>> THEN <<>>
    ELSE LET searchLower == toLowerCase(buildFilterText)
             byText ==
                 IF Len(trim(buildFilterText)) >= 3
                 THEN SelectSeq(buildData[1].allCodes,
                                LAMBDA code :
                                    \/ includes(toLowerCase(code.cui), searchLower)
                                    \/ includes(toLowerCase(code.code), searchLower)
                                    \/ includes(toLowerCase(code.term), searchLower)
                                    \/ includes(toLowerCase(code.vocabulary), searchLower))
                 ELSE buildData[1].allCodes
             byVocabulary ==
                 IF Len(buildFilterVocabularies) > 0
                 THEN SelectSeq(byText,
                                LAMBDA code :
                                    code.vocabulary \in Range(buildFilterVocabularies))
                 ELSE byText
         IN  SortCodes(byVocabulary)

\* buildData.allCodes after a call of getFilteredBuildCodes that filters and
\* sorts buildData.allCodes itself
AllCodesFilteredInPlace(allCodes, buildFilterText, buildFilterVocabularies) ==
    getFilteredBuildCodes(<<[allCodes |-> allCodes]>>, buildFilterText,
                          buildFilterVocabularies)

\* buildData.allCodes after a call of getFilteredBuildCodes: the filters and
\* the sort work on the copy [...buildData.allCodes]
AllCodesAfterFilter(allCodes, buildFilterText, buildFilterVocabularies) == allCodes

\* the component renders
Render(b) ==
    IF b.buildData = <<>> THEN b
    ELSE [b EXCEPT !.filteredCodes =
                       getFilteredBuildCodes(b.buildData, b.buildFilterText,
                                             b.buildFilterVocabularies),
                   !.buildData[1].allCodes =
                       AllCodesAfterFilter(@, b.buildFilterText,
                                           b.buildFilterVocabularies)]

\* prev.includes(vocab) ? prev.filter(v => v !== vocab) : [...prev, vocab]
toggleVocabularyFilter(prev, vocab) ==
    IF vocab \in Range(prev)
    THEN SelectSeq(prev, LAMBDA v : v # vocab)
    ELSE Append(prev, vocab)

\* lines.join('\n')
RECURSIVE JoinLines(_)
JoinLines(lines) ==
    IF lines = <<>> THEN <<>>
    ELSE IF Len(lines) = 1 THEN lines[1]
    ELSE lines[1] \o <<"\n">> \o JoinLines(Tail(lines))

\* the content of the file: `${code.vocabulary}\t${code.code}` per record
exportToTxt(buildData, buildFilterText, buildFilterVocabularies) ==
    LET filteredCodes ==
            getFilteredBuildCodes(buildData, buildFilterText, buildFilterVocabularies)
    IN  JoinLines([x \in 1..Len(filteredCodes) |->
                      filteredCodes[x].vocabulary \o <<"\t">> \o filteredCodes[x].code])

\* the vocabularies of the buttons of the vocabulary filter
getAvailableVocabularies(buildData) ==
    IF buildData = <<>> THEN {}
    ELSE {buildData[1].allCodes[x].vocabulary : x \in 1..Len(buildData[1].allCodes)}

FilterCodePool ==
    {[cui |-> <<"C", "0", "1">>, code |-> <<"G", "4", "3">>, term |-> <<"H", "e", "a", "d">>, vocabulary |-> <<"I", "C", "D", "1", "0", "C", "M">>],
     [cui |-> <<"C", "0", "2">>, code |-> <<"G", "4", "4">>, term |-> <<"s", "n", "o", "w">>, vocabulary |-> <<"S", "N", "O", "M", "E", "D", "C", "T", "_", "U", "S">>],
     [cui |-> <<"C", "0", "2">>, code |-> <<"1", "0">>, term |-> <<"c", "u", "t">>, vocabulary |-> <<"I", "C", "D", "1", "0", "C", "M">>]}

FilterCodeLists ==
    {codes \in SeqsUpTo(FilterCodePool, MaxCodes) :
        \A x, y \in 1..Len(codes) : codes[x] = codes[y] => x = y}

FilterTexts ==
    {<<>>, <<"s", "n">>, <<"s", "n", " ">>, <<"S", "n", "o", "m">>, <<"c", "0", "1">>, <<"g", "4">>, <<"G", "4", "4">>, <<"e", "a", "d">>, <<"z", "z", "z">>, <<"i", "c", "d", " ">>}

FilterVocabularySelections == {<<>>, <<<<"I", "C", "D", "1", "0", "C", "M">>>>, <<<<"S", "N", "O", "M", "E", "D", "C", "T", "_", "U", "S">>>>}

SetBuildFilterText ==
    /\ build.buildData # <<>>
    /\ \E text \in FilterTexts :
          build' = Render([build EXCEPT !.buildFilterText = text,
                                        !.lastEvent = "text"])
    /\ UNCHANGED <<apiKey, gw, walk, rec>>

SetBuildFilterVocabularies ==
    /\ build.buildData # <<>>
    /\ \E selection \in FilterVocabularySelections :
          build' = Render([build EXCEPT !.buildFilterVocabularies = selection,
                                        !.lastEvent = "vocabularies"])
    /\ UNCHANGED <<apiKey, gw, walk, rec>>

ToggleVocabularyFilter ==
    /\ build.buildData # <<>>
    /\ \E vocab \in getAvailableVocabularies(build.buildData) :
          build' = Render([build EXCEPT
                             !.buildFilterVocabularies = toggleVocabularyFilter(@, vocab),
                             !.lastEvent = "toggle"])
    /\ UNCHANGED <<apiKey, gw, walk, rec>>

ExportToTxt ==
    /\ build.buildData # <<>>
    /\ build' = [build EXCEPT
                    !.exportContent =
                        exportToTxt(build.buildData, build.buildFilterText,
                                    build.buildFilterVocabularies),
                    !.buildData[1].allCodes =
                        AllCodesAfterFilter(@, build.buildFilterText,
                                            build.buildFilterVocabularies),
                    !.lastEvent = "export"]
    /\ UNCHANGED <<apiKey, gw, walk, rec>>

\* a build has ended with a code set
FilterInit ==
    /\ apiKey = KeyValid
    /\ gw = GwIdle
    /\ walk = NoWalk
    /\ rec = NoRec
    /\ \E codes \in FilterCodeLists :
          build = Render([NoBuild EXCEPT
                             !.pc = "ended",
                             !.buildData = <<[allCodes |-> codes,
                                              totalCount |-> Len(codes)]>>])

FilterNext ==
    \/ SetBuildFilterText
    \/ SetBuildFilterVocabularies
    \/ ToggleVocabularyFilter
    \/ ExportToTxt

FilterSpec == FilterInit /\ [][FilterNext]_vars

(***************************************************************************)
(* The atoms of the concept view.  build.selectedAtoms is                  *)
(* selectedConcept.atoms (<<>> without a selected concept),                *)
(* build.shownAtoms the atoms the view lists, deduplicateAndSortAtoms of   *)
(* them.  An atom is [ui, rootSource, actualCode, code, termType], its     *)
(* codes plain strings.                                                    *)
(***************************************************************************)
MaxShown == 3

VOCAB_SORT_ORDER(rootSource) ==
    CASE rootSource = "SNOMEDCT_US" -> 1 [] rootSource = "ICD10CM" -> 2
      [] rootSource = "ICD9CM" -> 3 [] rootSource = "LNC" -> 4
      [] rootSource = "CPT" -> 5 [] rootSource = "HCPCS" -> 6
      [] rootSource = "RXNORM" -> 7 [] rootSource = "ATC" -> 8
      [] rootSource = "NDC" -> 9 [] rootSource = "CVX" -> 10
      [] rootSource = "ICD10PCS" -> 11 [] rootSource = "ICD9PCS" -> 12
      [] rootSource = "NDDF" -> 13
      [] OTHER -> 999

\* `${atom.rootSource}-${atom.actualCode || atom.code}`
AtomKey(atom) ==
    atom.rootSource \o "-" \o (IF atom.actualCode # "" THEN atom.actualCode ELSE atom.code)

\* the reducer that keeps the first atom of a key whatever comes after it
KeepFirstAtom(acc, atom) ==
    IF \A x \in 1..Len(acc) : acc[x].key # AtomKey(atom)
    THEN Append(acc, [key |-> AtomKey(atom), atom |-> atom])
    ELSE acc

\* the reducer: if (!acc[key] || atom.termType === 'PT') acc[key] = atom.
\* acc is the object as the sequence of its entries, in insertion order
KeepAtom(acc, atom) ==
    IF \A x \in 1..Len(acc) : acc[x].key # AtomKey(atom)
    THEN Append(acc, [key |-> AtomKey(atom), atom |-> atom])
    ELSE IF atom.termType = "PT"
         THEN [x \in 1..Len(acc) |->
                  IF acc[x].key = AtomKey(atom) THEN [acc[x] EXCEPT !.atom = atom]
                  ELSE acc[x]]
    ELSE acc

\* atoms.reduce(..., {})
RECURSIVE ReduceAtoms(_)
ReduceAtoms(atoms) ==
    IF atoms = <<>> THEN <<>>
    ELSE KeepAtom(ReduceAtoms(SubSeq(atoms, 1, Len(atoms) - 1)), atoms[Len(atoms)])

\* the place of an atom in a list sorted by vocabulary priority: after the
\* atoms that do not come after it
InsertAtom(sorted, atom) ==
    LET after == {x \in 1..Len(sorted) :
                     VOCAB_SORT_ORDER(sorted[x].rootSource)
                         > VOCAB_SORT_ORDER(atom.rootSource)}
        at == IF after = {} THEN Len(sorted) + 1
              ELSE CHOOSE x \in after : \A y \in after : x <= y
    IN  SubSeq(sorted, 1, at - 1) \o <<atom>> \o SubSeq(sorted, at, Len(sorted))

\* .sort((a, b) => orderA - orderB), a stable sort
RECURSIVE SortAtoms(_)
SortAtoms(atoms) ==
    IF atoms = <<>> THEN <<>>
    ELSE InsertAtom(SortAtoms(SubSeq(atoms, 1, Len(atoms) - 1)), atoms[Len(atoms)])

deduplicateAndSortAtoms(atoms) ==
    LET uniqueAtoms == ReduceAtoms(atoms)
    IN  SortAtoms([x \in 1..Len(uniqueAtoms) |-> uniqueAtoms[x].atom])

\* atoms of two vocabularies and two codes, preferred terms and synonyms
ShownAtomPool ==
    {[ui |-> "A1", rootSource |-> "ICD10CM", actualCode |-> "1", code |-> "1", termType |-> "SY"],
     [ui |-> "A2", rootSource |-> "ICD10CM", actualCode |-> "1", code |-> "1", termType |-> "PT"],
     [ui |-> "A3", rootSource |-> "ICD10CM", actualCode |-> "1", code |-> "1", termType |-> "PT"],
     [ui |-> "A4", rootSource |-> "ICD10CM", actualCode |-> "2", code |-> "2", termType |-> "HT"],
     [ui |-> "A5", rootSource |-> "SNOMEDCT_US", actualCode |-> "1", code |-> "1", termType |-> "SY"],
     [ui |-> "A6", rootSource |-> "SNOMEDCT_US", actualCode |-> "1", code |-> "1", termType |-> "PT"]}

\* handleViewDetails, its getConceptDetails call answered, and the view
\* rendered
ViewDetails ==
    /\ \E atoms \in SeqsUpTo(ShownAtomPool, MaxShown) :
          build' = [build EXCEPT !.selectedAtoms = atoms,
                                 !.shownAtoms = deduplicateAndSortAtoms(atoms)]
    /\ UNCHANGED <<apiKey, gw, walk, rec>>

handleBackToSearch ==
    /\ build.selectedAtoms # <<>>
    /\ build' = [build EXCEPT !.selectedAtoms = <<>>, !.shownAtoms = <<>>]
    /\ UNCHANGED <<apiKey, gw, walk, rec>>

DetailsInit ==
    /\ apiKey = KeyValid
    /\ gw = GwIdle
    /\ walk = NoWalk
    /\ rec = NoRec
    /\ build = NoBuild

DetailsNext ==
    \/ ViewDetails
    \/ handleBackToSearch

DetailsSpec == DetailsInit /\ [][DetailsNext]_vars

(***************************************************************************)
(* The vocabulary names.  build.conversions holds the last two calls of    *)
(* the conversion functions, each as [fn, input, output], the later one    *)
(* last.                                                                   *)
(***************************************************************************)
VOCABULARY_MAPPINGS ==
    <<[vocabulary_id |-> "ICD10CM",  displayName |-> "ICD10CM",  umls_vocabulary |-> "ICD10CM"],
      [vocabulary_id |-> "SNOMED",   displayName |-> "SNOMED",   umls_vocabulary |-> "SNOMEDCT_US"],
      [vocabulary_id |-> "ICD9CM",   displayName |-> "ICD9CM",   umls_vocabulary |-> "ICD9CM"],
      [vocabulary_id |-> "LOINC",    displayName |-> "LOINC",    umls_vocabulary |-> "LNC"],
      [vocabulary_id |-> "CPT4",     displayName |-> "CPT4",     umls_vocabulary |-> "CPT"],
      [vocabulary_id |-> "HCPCS",    displayName |-> "HCPCS",    umls_vocabulary |-> "HCPCS"],
      [vocabulary_id |-> "RxNorm",   displayName |-> "RxNorm",   umls_vocabulary |-> "RXNORM"],
      [vocabulary_id |-> "NDC",      displayName |-> "NDC",      umls_vocabulary |-> "NDC"],
      [vocabulary_id |-> "CVX",      displayName |-> "CVX",      umls_vocabulary |-> "CVX"],
      [vocabulary_id |-> "ATC",      displayName |-> "ATC",      umls_vocabulary |-> "ATC"],
      [vocabulary_id |-> "ICD9Proc", displayName |-> "ICD9PCS",  umls_vocabulary |-> "ICD9CM"],
      [vocabulary_id |-> "ICD10PCS", displayName |-> "ICD10PCS", umls_vocabulary |-> "ICD10PCS"]>>

\* new Map(VOCABULARY_MAPPINGS.map(v => [key(v), v])).get(name): the last
\* mapping of the table with that key, <<>> when there is none
MapGet(keys, name) ==
    LET at == {x \in 1..Len(keys) : keys[x] = name}
    IN  IF at = {} THEN <<>>
        ELSE <<VOCABULARY_MAPPINGS[CHOOSE x \in at : \A y \in at : y <= x]>>

displayNameToMapping(name) ==
    MapGet([x \in 1..Len(VOCABULARY_MAPPINGS) |-> VOCABULARY_MAPPINGS[x].displayName], name)

umlsToMapping(name) ==
    MapGet([x \in 1..Len(VOCABULARY_MAPPINGS) |-> VOCABULARY_MAPPINGS[x].umls_vocabulary], name)

vocabularyIdToMapping(name) ==
    MapGet([x \in 1..Len(VOCABULARY_MAPPINGS) |-> VOCABULARY_MAPPINGS[x].vocabulary_id], name)

displayNameToUmls(displayName) ==
    LET mapping == displayNameToMapping(displayName)
    IN  IF mapping = <<>> THEN displayName ELSE mapping[1].umls_vocabulary

umlsToVocabularyId(umlsVocabulary) ==
    LET mapping == umlsToMapping(umlsVocabulary)
    IN  IF mapping = <<>> THEN umlsVocabulary ELSE mapping[1].vocabulary_id

vocabularyIdToUmls(vocabularyId) ==
    LET mapping == vocabularyIdToMapping(vocabularyId)
    IN  IF mapping = <<>> THEN vocabularyId ELSE mapping[1].umls_vocabulary

umlsToDisplayName(umlsVocabulary) ==
    LET mapping == umlsToMapping(umlsVocabulary)
    IN  IF mapping = <<>> THEN umlsVocabulary ELSE mapping[1].displayName

\* the names of the table, and a name that is not in it
VocabularyNames ==
    UNION {{VOCABULARY_MAPPINGS[x].vocabulary_id, VOCABULARY_MAPPINGS[x].displayName,
            VOCABULARY_MAPPINGS[x].umls_vocabulary} : x \in 1..Len(VOCABULARY_MAPPINGS)}
    \cup {"MSH"}

Converted(fn, input, output) ==
    /\ build' = [build EXCEPT !.conversions =
                     (IF @ = <<>> THEN <<>> ELSE <<@[Len(@)]>>)
                         \o <<[fn |-> fn, input |-> input, output |-> output]>>]
    /\ UNCHANGED <<apiKey, gw, walk, rec>>

CallDisplayNameToUmls ==
    \E name \in VocabularyNames :
        Converted("displayNameToUmls", name, displayNameToUmls(name))

CallUmlsToVocabularyId ==
    \E name \in VocabularyNames :
        Converted("umlsToVocabularyId", name, umlsToVocabularyId(name))

CallVocabularyIdToUmls ==
    \E name \in VocabularyNames :
        Converted("vocabularyIdToUmls", name, vocabularyIdToUmls(name))

CallUmlsToDisplayName ==
    \E name \in VocabularyNames :
        Converted("umlsToDisplayName", name, umlsToDisplayName(name))

NamesInit == DetailsInit

NamesNext ==
    \/ CallDisplayNameToUmls
    \/ CallUmlsToVocabularyId
    \/ CallVocabularyIdToUmls
    \/ CallUmlsToDisplayName

NamesSpec == NamesInit /\ [][NamesNext]_vars

(***************************************************************************)
(* One build in a small world.  The root is the SNOMEDCT_US code "1" with  *)
(* the children "2" and "3"; the code n resolves to the concept Cn, or to  *)
(* C1 under a shared concept; a concept has one atom in the target         *)
(* vocabularies, the SNOMEDCT_US or the ICD10CM code of its number; an     *)
(* ICD10CM code may have the child "4", of the concept C4.  No request     *)
(* fails.                                                                  *)
(***************************************************************************)
ScenarioRoot == [ui |-> Plain("A1"), code |-> Plain("1"), rootSource |-> "SNOMEDCT_US"]

NodeOf(c) == [ui |-> Plain(c), code |-> Plain(c)]

ScenarioChildren(vocabulary, code) ==
    IF vocabulary = "SNOMEDCT_US"
    THEN IF code = Plain("1") THEN {<<NodeOf("2"), NodeOf("3")>>} ELSE {<<>>}
    ELSE IF code = Plain("4") THEN {<<>>} ELSE {<<>>, <<NodeOf("4")>>}

ScenarioWalkScripts(w) ==
    {<<Ok(children)>> : children \in ScenarioChildren(w.vocabulary, Top(w).code)}

ConceptOfCode(code) ==
    CASE code = Plain("1") -> "C1"
      [] code = Plain("2") -> "C2"
      [] code = Plain("3") -> "C3"
      [] OTHER -> "C4"

CodeOfConcept(cui) ==
    CASE cui = "C1" -> "1"
      [] cui = "C2" -> "2"
      [] cui = "C3" -> "3"
      [] OTHER -> "4"

ScenarioSourceResponse(pair) == Ok(<<[atoms |-> AtomsUrl(pair.vocabulary, pair.code)]>>)

ScenarioAtomsResponses(pair) ==
    {Ok(<<[concept |-> ConceptUrl(c)]>>) : c \in {ConceptOfCode(pair.code), "C1"}}

ScenarioTargetResponses(cui) ==
    {Ok(<<[ui |-> "A3", code |-> Plain(CodeOfConcept(cui)), rootSource |-> v]>>) :
        v \in {"SNOMEDCT_US", "ICD10CM"}}

ScenarioStart ==
    /\ build.pc = "idle"
    /\ Becomes(StartBuild(apiKey, ScenarioRoot,
                          getDomainFromVocabulary(ScenarioRoot.rootSource), ""))
    /\ UNCHANGED <<apiKey, gw>>

ScenarioWalkResponse ==
    /\ build.pc = "walk"
    /\ \E pages \in ScenarioWalkScripts(walk) :
          LET w == AfterDescendants(walk, apiKey,
                                    getDescendants(apiKey, walk.vocabulary, pages))
              m == [Now EXCEPT !.walk = w]
          IN  Becomes(IF w.status = "done" THEN AfterWalk(m, apiKey, w.result) ELSE m)
    /\ UNCHANGED <<apiKey, gw>>

ScenarioRecSourceResponse ==
    /\ build.pc = "reconcile"
    /\ rec.awaiting = "source"
    /\ LET r == SourceFetched(rec, ScenarioSourceResponse(rec.input[rec.i]))
           m == [Now EXCEPT !.rec = r]
       IN  Becomes(IF r.status = "done" THEN AfterRec(m, apiKey, r.cuis) ELSE m)
    /\ UNCHANGED <<apiKey, gw>>

ScenarioRecAtomsResponse ==
    /\ build.pc = "reconcile"
    /\ rec.awaiting = "atoms"
    /\ \E resp \in ScenarioAtomsResponses(rec.input[rec.i]) :
          LET r == AtomsFetched(rec, resp)
              m == ConceptServed([Now EXCEPT !.rec = r], resp)
          IN  Becomes(IF r.status = "done" THEN AfterRec(m, apiKey, r.cuis) ELSE m)
    /\ UNCHANGED <<apiKey, gw>>

ScenarioTargetResponse ==
    /\ build.pc = "target"
    /\ \E atomsResp \in ScenarioTargetResponses(build.allCUIs[build.k]) :
          Becomes(AfterTarget(Now, apiKey,
                              getConceptDetails(apiKey, ConceptOf(build.allCUIs[build.k]),
                                                atomsResp)))
    /\ UNCHANGED <<apiKey, gw>>

ScenarioExpandWalkResponse ==
    /\ build.pc = "expandWalk"
    /\ \E pages \in ScenarioWalkScripts(walk) :
          LET w == AfterDescendants(walk, apiKey,
                                    getDescendants(apiKey, walk.vocabulary, pages))
              m == [Now EXCEPT !.walk = w]
          IN  Becomes(IF w.status = "done" THEN AfterExpandWalk(m, apiKey, w.result)
                      ELSE m)
    /\ UNCHANGED <<apiKey, gw>>

ScenarioExpandSourceResponse ==
    /\ build.pc = "expandSource"
    /\ Becomes(AfterExpandSource(Now, apiKey,
                                 ScenarioSourceResponse(build.descendants[build.j])))
    /\ UNCHANGED <<apiKey, gw>>

ScenarioExpandAtomsResponse ==
    /\ build.pc = "expandAtoms"
    /\ Becomes(AfterExpandAtoms(
                   Now, apiKey,
                   Ok(<<[concept |->
                            ConceptUrl(ConceptOfCode(build.descendants[build.j].code))]>>)))
    /\ UNCHANGED <<apiKey, gw>>

ScenarioExpandConceptResponse ==
    /\ build.pc = "expandConcept"
    /\ Becomes(AfterExpandConcept(
                   Now, apiKey,
                   getConceptDetails(apiKey, ConceptOf(build.descCui), Ok(<<>>))))
    /\ UNCHANGED <<apiKey, gw>>

ScenarioInit ==
    /\ apiKey = KeyValid
    /\ gw = GwIdle
    /\ walk = NoWalk
    /\ rec = NoRec
    /\ build = NoBuild

ScenarioNext ==
    \/ ScenarioStart
    \/ ScenarioWalkResponse
    \/ ScenarioRecSourceResponse
    \/ ScenarioRecAtomsResponse
    \/ ScenarioTargetResponse
    \/ ScenarioExpandWalkResponse
    \/ ScenarioExpandSourceResponse
    \/ ScenarioExpandAtomsResponse
    \/ ScenarioExpandConceptResponse

ScenarioSpec == ScenarioInit /\ [][ScenarioNext]_vars

(***************************************************************************)
(* Builds from the hierarchy view, in the same small world.  The selected  *)
(* concept is C1 and the hierarchy shown is that of its ICD10CM atom "1",  *)
(* with the descendant "2" of the concept C2; a build starts from a row of *)
(* the view.  Kept for the properties: build.startedFrom, the node of the  *)
(* row.                                                                    *)
(***************************************************************************)
SelectedConceptUi == "C1"

HierarchyRows ==
    {[ui |-> Plain("A1"), code |-> Plain("1"), rootSource |-> "ICD10CM"],
     [ui |-> Plain("2"), code |-> Plain("2"), rootSource |-> "ICD10CM"],
     [ui |-> Plain("A1"), code |-> Plain("1"), rootSource |-> "SNOMEDCT_US"]}

\* the answer to getConceptDetails(cui, [standardVocab]): the atom of the
\* concept in the standard vocabulary
AnchorAtomsResponse(cui, standardVocab) ==
    Ok(<<[ui |-> "A2", code |-> Plain(CodeOfConcept(cui)), rootSource |-> standardVocab]>>)

AnchorStart ==
    /\ build.pc = "idle"
    /\ \E node \in HierarchyRows :
          LET m == StartBuild(apiKey, node, getDomainFromVocabulary(node.rootSource),
                              SelectedConceptUi)
          IN  Becomes([m EXCEPT !.build.startedFrom = <<node>>])
    /\ UNCHANGED <<apiKey, gw>>

AnchorLookupResponse ==
    /\ build.pc = "stage1"
    /\ LET atomsResp ==
               AnchorAtomsResponse(SelectedConceptUi,
                                   getStandardVocabularyForDomain(build.buildDomain))
       IN  Becomes(AfterStandardLookup(
                       Now, apiKey, atomsResp.kind,
                       getConceptDetails(apiKey, ConceptOf(SelectedConceptUi), atomsResp)))
    /\ UNCHANGED <<apiKey, gw>>

AnchorInit == ScenarioInit

AnchorNext ==
    \/ AnchorStart
    \/ AnchorLookupResponse
    \/ ScenarioWalkResponse
    \/ ScenarioRecSourceResponse
    \/ ScenarioRecAtomsResponse
    \/ ScenarioTargetResponse
    \/ ScenarioExpandWalkResponse
    \/ ScenarioExpandSourceResponse
    \/ ScenarioExpandAtomsResponse
    \/ ScenarioExpandConceptResponse

AnchorSpec == AnchorInit /\ [][AnchorNext]_vars

(***************************************************************************)
(* The ways out of a build, in the same small world: the lookup of the     *)
(* standard atom may find the atom, find none, or fail, and an exception   *)
(* that no inner try block catches may reach the catch block of the        *)
(* handler while any request is awaited.                                   *)
(***************************************************************************)
ExitLookupResponse ==
    /\ build.pc = "stage1"
    /\ \E atomsResp \in
             {AnchorAtomsResponse(SelectedConceptUi,
                                  getStandardVocabularyForDomain(build.buildDomain)),
              Ok(<<>>), Failure("network")} :
          Becomes(AfterStandardLookup(
                      Now, apiKey, atomsResp.kind,
                      getConceptDetails(apiKey, ConceptOf(SelectedConceptUi), atomsResp)))
    /\ UNCHANGED <<apiKey, gw>>

ExitUnexpectedException ==
    /\ build.pc \notin {"idle", "ended"}
    /\ Becomes(Machine(Caught(build), NoWalk, NoRec))
    /\ UNCHANGED <<apiKey, gw>>

ExitInit == ScenarioInit

ExitNext ==
    \/ AnchorStart
    \/ ExitLookupResponse
    \/ ExitUnexpectedException
    \/ ScenarioWalkResponse
    \/ ScenarioRecSourceResponse
    \/ ScenarioRecAtomsResponse
    \/ ScenarioTargetResponse
    \/ ScenarioExpandWalkResponse
    \/ ScenarioExpandSourceResponse
    \/ ScenarioExpandAtomsResponse
    \/ ScenarioExpandConceptResponse

ExitSpec == ExitInit /\ [][ExitNext]_vars

(***************************************************************************)
(* Two invocations of handleBuildFromHierarchyNode, their awaits           *)
(* interleaved, in the small world with one answer to every request: a     *)
(* concept has its ICD10CM atom as target atom, an ICD10CM code other than *)
(* "4" has the child "4".  build.invocations holds what each invocation    *)
(* has of its own, as Machine(b, w, r): b with the locals of the handler,  *)
(* w with its walk and visited set, r with its reconciliation.             *)
(***************************************************************************)
NoInvocation == Machine(NoBuild, NoWalk, NoRec)

InvocationRoots == {ScenarioRoot, [ScenarioRoot EXCEPT !.code = Plain("2")]}

ChildrenServed(vocabulary, code) ==
    IF vocabulary = "SNOMEDCT_US"
    THEN IF code = Plain("1") THEN <<NodeOf("2"), NodeOf("3")>> ELSE <<>>
    ELSE IF code = Plain("4") THEN <<>> ELSE <<NodeOf("4")>>

ConceptServedFor(code) == Ok(<<[concept |-> ConceptUrl(ConceptOfCode(code))]>>)

\* the walk in flight of an invocation, resumed with the children of its code
InvocationWalked(m, key) ==
    AfterDescendants(m.walk, key,
                     getDescendants(key, m.walk.vocabulary,
                                    <<Ok(ChildrenServed(m.walk.vocabulary,
                                                        Top(m.walk).code))>>))

\* an invocation resumed with the answer to the request it awaits
InvocationStep(m, key) ==
    LET b == m.build
    IN  CASE b.pc = "walk" ->
                 LET w == InvocationWalked(m, key)
                 IN  IF w.status = "done"
                     THEN AfterWalk([m EXCEPT !.walk = w], key, w.result)
                     ELSE [m EXCEPT !.walk = w]
          [] b.pc = "reconcile" ->
                 LET pair == m.rec.input[m.rec.i]
                     r == IF m.rec.awaiting = "source"
                          THEN SourceFetched(m.rec, ScenarioSourceResponse(pair))
                          ELSE AtomsFetched(m.rec, ConceptServedFor(pair.code))
                 IN  IF r.status = "done"
                     THEN AfterRec([m EXCEPT !.rec = r], key, r.cuis)
                     ELSE [m EXCEPT !.rec = r]
          [] b.pc = "target" ->
                 AfterTarget(m, key,
                             getConceptDetails(
                                 key, ConceptOf(b.allCUIs[b.k]),
                                 AnchorAtomsResponse(b.allCUIs[b.k], "ICD10CM")))
          [] b.pc = "expandWalk" ->
                 LET w == InvocationWalked(m, key)
                 IN  IF w.status = "done"
                     THEN AfterExpandWalk([m EXCEPT !.walk = w], key, w.result)
                     ELSE [m EXCEPT !.walk = w]
          [] b.pc = "expandSource" ->
                 AfterExpandSource(m, key, ScenarioSourceResponse(b.descendants[b.j]))
          [] b.pc = "expandAtoms" ->
                 AfterExpandAtoms(m, key, ConceptServedFor(b.descendants[b.j].code))
          [] b.pc = "expandConcept" ->
                 AfterExpandConcept(m, key,
                                    getConceptDetails(key, ConceptOf(b.descCui), Ok(<<>>)))

\* an invocation whose sets are those of all invocations together
SharedSets(invocations, x) ==
    LET m == invocations[x]
        walking == {y \in 1..Len(invocations) : invocations[y].walk # NoWalk}
        visited == UNION {invocations[y].walk.visited : y \in walking}
        processed == UNION {invocations[y].build.processedCodesInExpansion :
                               y \in 1..Len(invocations)}
        b == [m.build EXCEPT !.processedCodesInExpansion = processed]
    IN  IF m.walk = NoWalk THEN [m EXCEPT !.build = b]
        ELSE [m EXCEPT !.build = b, !.walk.visited = visited]

\* an invocation as it resumes: with the sets it made itself, new Set() in
\* the call of the walk and in const processedCodesInExpansion
OwnSets(invocations, x) == invocations[x]

InvocationStarts ==
    /\ \E x \in 1..Len(build.invocations), node \in InvocationRoots :
          /\ build.invocations[x] = NoInvocation
          /\ build' = [build EXCEPT !.invocations[x] =
                           StartBuild(apiKey, node,
                                      getDomainFromVocabulary(node.rootSource), "")]
    /\ UNCHANGED <<apiKey, gw, walk, rec>>

InvocationResumes ==
    /\ \E x \in 1..Len(build.invocations) :
          /\ build.invocations[x].build.pc \notin {"idle", "ended"}
          /\ build' = [build EXCEPT !.invocations[x] =
                           InvocationStep(OwnSets(build.invocations, x), apiKey)]
    /\ UNCHANGED <<apiKey, gw, walk, rec>>

TwoInit ==
    /\ apiKey = KeyValid
    /\ gw = GwIdle
    /\ walk = NoWalk
    /\ rec = NoRec
    /\ build = [NoBuild EXCEPT !.invocations = <<NoInvocation, NoInvocation>>]

TwoNext == InvocationStarts \/ InvocationResumes

TwoSpec == TwoInit /\ [][TwoNext]_vars

(***************************************************************************)
(* One recursive walk over a fixed tree: "1" has the children "2" and "3", *)
(* "2" has the child "4", "3" the child "5", "5" the child "6".  Each call  *)
(* of getDescendants is answered with the children or a failure.  Kept for *)
(* the properties: build.walkAnswers, the code and the response kind of    *)
(* each call answered, in order.                                           *)
(***************************************************************************)
TreeChildren(code) ==
    CASE code = Plain("1") -> <<NodeOf("2"), NodeOf("3")>>
      [] code = Plain("2") -> <<NodeOf("4")>>
      [] code = Plain("3") -> <<NodeOf("5")>>
      [] code = Plain("5") -> <<NodeOf("6")>>
      [] OTHER -> <<>>

TreeWalkBegin ==
    /\ walk = NoWalk
    /\ walk' = StartWalk(apiKey, "SNOMEDCT_US", Plain("1"), {})
    /\ UNCHANGED <<apiKey, gw, rec, build>>

TreeWalkResponse ==
    /\ walk # NoWalk
    /\ walk.status = "running"
    /\ \E resp \in Failures \cup {Ok(TreeChildren(Top(walk).code))} :
          /\ walk' = AfterDescendants(walk, apiKey,
                                      getDescendants(apiKey, walk.vocabulary, <<resp>>))
          /\ build' = [build EXCEPT !.walkAnswers =
                           Append(@, [code |-> Top(walk).code, kind |-> resp.kind])]
    /\ UNCHANGED <<apiKey, gw, rec>>

TreeInit == ScenarioInit

TreeNext == TreeWalkBegin \/ TreeWalkResponse

TreeSpec == TreeInit /\ [][TreeNext]_vars

(***************************************************************************)
(* Properties of the gateway (GwSpec).                                     *)
(***************************************************************************)
\* a request of the last call was answered by a failure other than not-found
GwRemoteFailure ==
    \E i \in 1..Len(gw.kinds) : gw.kinds[i] \in {"error", "network", "badjson"}

GwIsDrugCall ==
    \/ gw.op = "getRxNormToNDC"
    \/ gw.op = "getDescendants" /\ gw.vocabulary = "RXNORM"

C9_NotFoundIsEmpty ==
    (/\ gw.op \in {"getAncestors", "getDescendants"}
     /\ gw.kinds # <<>>
     /\ gw.kinds[Len(gw.kinds)] = "notfound")
        => /\ ~gw.outcome.threw
           /\ Len(gw.kinds) = 1 => gw.outcome.value = <<>>

\* a 404 on the second page of getDescendants: the first page is returned
C9_Witness ==
    /\ gw.op = "getDescendants" /\ gw.vocabulary = "SNOMEDCT_US"
    /\ gw.kinds = <<"ok", "notfound">>
    /\ ~gw.outcome.threw
    /\ Len(gw.outcome.value) = PageSize

GwIsPagedCall == gw.op = "getDescendants" /\ gw.vocabulary # "RXNORM"

\* what a response adds to the descendants
GwPageBody(resp) == IF resp.kind = "ok" THEN resp.body ELSE <<>>

GwFullPage(resp) == resp.kind = "ok" /\ Len(resp.body) >= PageSize

\* C14: the non-drug getDescendants requests the pages 1, 2, ... in order and
\* stops at the first short or empty page or at the page limit: it issues at
\* most MaxPageNumber requests, every page before the last requested one was
\* full, it goes on after a full page unless the limit is reached, and what it
\* returns is the pages concatenated in request order.
C14_PagingStopsAndConcatenates ==
    GwIsPagedCall =>
        LET n == gw.outcome.requests
        IN  /\ n = Len(gw.resps)
            /\ n <= MaxPageNumber
            /\ \A x \in 1..(n - 1) : GwFullPage(gw.resps[x])
            /\ (n > 0 /\ GwFullPage(gw.resps[n])) => n = MaxPageNumber
            /\ ~gw.outcome.threw =>
                   gw.outcome.value =
                       Flatten([x \in 1..n |-> GwPageBody(gw.resps[x])])

\* the service never runs out of full pages: the call stops at the limit
C14_Witness ==
    /\ GwIsPagedCall
    /\ gw.outcome.requests = MaxPageNumber
    /\ GwFullPage(gw.resps[MaxPageNumber])
    /\ ~gw.outcome.threw
    /\ Len(gw.outcome.value) = MaxPageNumber * PageSize
    /\ gw.outcome.value[1] # gw.outcome.value[PageSize + 1]

GwSearchReturned == gw.op = "searchUMLS" /\ ~gw.outcome.threw

\* the results of the pages, concatenated in page order
GwSearchResults == Flatten([p \in 1..Len(gw.resps) |-> gw.resps[p].body])

GwNoSentinelNoRepeat ==
    /\ \A x \in 1..Len(gw.outcome.value) : gw.outcome.value[x].ui # "NONE"
    /\ \A x, y \in 1..Len(gw.outcome.value) :
          gw.outcome.value[x].ui = gw.outcome.value[y].ui => x = y
    /\ {gw.outcome.value[x].ui : x \in 1..Len(gw.outcome.value)} =
          {GwSearchResults[x].ui : x \in 1..Len(GwSearchResults)} \ {"NONE"}

GwIsMapping == gw.op = "getRxNormToNDC"

\* the product codes the relation service listed in the n-th response
GwListedCodes(n) ==
    IF n <= Len(gw.resps) /\ gw.resps[n].kind = "ok"
    THEN {Plain(gw.resps[n].body[x]) : x \in 1..Len(gw.resps[n].body)}
    ELSE {}

\* the product codes among the attributes of the n-th response
GwAttributeCodes(n) ==
    IF n <= Len(gw.resps) /\ gw.resps[n].kind = "ok"
    THEN {Plain(gw.resps[n].body[x].attributeValue) :
             x \in {y \in 1..Len(gw.resps[n].body) :
                       /\ gw.resps[n].body[y].attributeValue # ""
                       /\ \/ isNdcAttribute(gw.resps[n].body[y].attributeName)
                          \/ isNdcFormat(gw.resps[n].body[y].attributeValue)}}
    ELSE {}

\* C17: getRxNormToNDC returns the union of the product codes of the relation
\* service and of the attribute heuristic (the attributes of the drug code and
\* of the concept), no code value twice, and every record carries the source
\* it came from.
C17_UnionWithoutRepeats ==
    GwIsMapping =>
        /\ ~gw.outcome.threw
        /\ CodesOf(gw.outcome.value) =
               GwListedCodes(1) \cup GwAttributeCodes(2) \cup GwAttributeCodes(3)
        /\ \A x, y \in 1..Len(gw.outcome.value) :
               gw.outcome.value[x].code = gw.outcome.value[y].code => x = y
        /\ \A x \in 1..Len(gw.outcome.value) :
               LET record == gw.outcome.value[x]
               IN  CASE record.source = "rxnav" -> record.code \in GwListedCodes(1)
                     [] record.source = "umls_rxnorm_attributes" ->
                            record.code \in GwAttributeCodes(2)
                     [] record.source = "umls_cui_attributes" ->
                            record.code \in GwAttributeCodes(3)
                     [] OTHER -> FALSE

\* a code both sources have, and another only the attributes have
C17_Witness ==
    /\ GwIsMapping
    /\ GwListedCodes(1) \cap GwAttributeCodes(2) # {}
    /\ Len(gw.outcome.value) = 2
    /\ gw.outcome.value[1].source = "rxnav"
    /\ gw.outcome.value[2].source = "umls_cui_attributes"

\* the attributes the n-th response lists under a name without NDC in it
GwPlainAttributes(n) ==
    IF n <= Len(gw.resps) /\ gw.resps[n].kind = "ok"
    THEN {gw.resps[n].body[x].attributeValue :
             x \in {y \in 1..Len(gw.resps[n].body) :
                       ~isNdcAttribute(gw.resps[n].body[y].attributeName)}}
    ELSE {}

\* C18: an attribute value is taken as a product code when it is 10 or 11
\* digits once its dashes are removed: under an attribute name that does not
\* name NDC, "00071015523" and "0071-0155-23" are taken, "ABC123" is not, and
\* a value is taken exactly when it has that shape.
C18_NdcShapedValues ==
    GwIsMapping =>
        \A n \in {2, 3} :
            \A value \in GwPlainAttributes(n) :
                /\ value \in {"00071015523", "0071-0155-23"}
                      => Plain(value) \in CodesOf(gw.outcome.value)
                /\ value = "ABC123" => Plain(value) \notin CodesOf(gw.outcome.value)
                /\ Plain(value) \in CodesOf(gw.outcome.value) \ GwListedCodes(1)
                      => isNdcFormat(value)
                /\ isNdcFormat(value) => Plain(value) \in CodesOf(gw.outcome.value)

\* the dashed value under the name TTY is the one product code returned
C18_Witness ==
    /\ GwIsMapping
    /\ "0071-0155-23" \in GwPlainAttributes(2)
    /\ GwListedCodes(1) = {}
    /\ CodesOf(gw.outcome.value) = {Plain("0071-0155-23")}

(***************************************************************************)
(* Properties of the walk (WalkSpec).                                      *)
(***************************************************************************)
WalkIsRecursive == walk.status # "idle" /\ walk.vocabulary # "RXNORM"

WalkIsFlat == walk.status # "idle" /\ walk.vocabulary = "RXNORM"

NoRepeatedCall ==
    \A i, j \in 1..Len(walk.calls) : i # j => walk.calls[i] # walk.calls[j]

\* C3: in recursive mode, whatever the service serves (cycles included), the
\* walk calls getDescendants at most once for a code, and it terminates: every
\* response either ends the walk or adds a code to the visited set, which
\* holds only codes the service has served
C3_CycleSafety ==
    /\ [](WalkIsRecursive =>
            /\ NoRepeatedCall
            /\ walk.visited \subseteq {walk.root} \cup {e[2] : e \in walk.edges})
    /\ [][(WalkIsRecursive /\ walk.status = "running")
            => \/ walk'.status = "done"
               \/ /\ walk.visited \subseteq walk'.visited
                  /\ walk.visited # walk'.visited]_vars

\* a finished recursive walk that was served a cycle between two codes
C3_Witness ==
    /\ WalkIsRecursive /\ walk.status = "done"
    /\ \E a, b \in walk.visited :
          a # b /\ <<a, b>> \in walk.edges /\ <<b, a>> \in walk.edges

\* C4: a walk of the drug vocabulary calls getDescendants once, for its root,
\* and issues one network request (none when the credential is not configured)
C4_FlatModeOneCall ==
    (WalkIsFlat /\ walk.status = "done")
        => /\ walk.calls = <<walk.root>>
           /\ walk.requests = IF KeyNotConfigured(apiKey) THEN 0 ELSE 1

\* a flat walk that returned three related concepts after one request
C4_Witness ==
    /\ WalkIsFlat /\ walk.status = "done"
    /\ Len(walk.result) = 3
    /\ walk.requests = 1

(***************************************************************************)
(* Properties of the reconciler (RecSpec).                                 *)
(***************************************************************************)
\* the lookups of the pair that received these responses succeeded: the source
\* record names its atoms and the first atom names a concept
LookupsSucceeded(responses) ==
    /\ Len(responses) = 2
    /\ responses[1].kind = "ok" /\ responses[2].kind = "ok"
    /\ Len(responses[2].body) > 0
    /\ IsCui(CuiOfAtom(responses[2].body[1]))

PairFailure(responses) ==
    responses # <<>> /\ responses[Len(responses)].kind # "ok"

\* C10: a failure while resolving one pair does not abort the batch: the pair
\* after a failed one is attempted next, a finished batch has attempted every
\* pair of the input, and its result holds the concept id of every pair whose
\* two lookups succeeded.
C10_BatchSurvivesPairFailure ==
    /\ [](rec.status = "done" =>
            /\ Len(rec.served) = Len(rec.input)
            /\ \A i \in 1..Len(rec.served) :
                  /\ rec.served[i] # <<>>
                  /\ LookupsSucceeded(rec.served[i]) =>
                        CuiOfAtom(rec.served[i][2].body[1]) \in Range(rec.cuis))
    /\ [][(rec.status = "running" /\ rec.i < Len(rec.input)
             /\ PairFailure(rec'.served[rec.i]))
            => (rec'.status = "running" /\ rec'.i = rec.i + 1
                   /\ rec'.awaiting = "source")]_vars

\* a batch whose first pair failed and whose second pair was then resolved
C10_Witness ==
    /\ rec.status = "done"
    /\ Len(rec.input) = 2
    /\ PairFailure(rec.served[1])
    /\ LookupsSucceeded(rec.served[2])
    /\ rec.cuis # <<>>

\* the path segments of the model that are a "C" followed by digits
HasConceptIdShape(segment) == segment \in {"C1", "C2", "C3", "C4"}

\* C19: every concept id in the result of convertSourceCodesToCUIs is a "C"
\* followed by digits; an extracted value of any other shape is discarded.
C19_OnlyConceptIdShapes ==
    rec.status = "done" => \A x \in 1..Len(rec.cuis) : HasConceptIdShape(rec.cuis[x])

(***************************************************************************)
(* Properties of the build (BuildSpec).                                    *)
(***************************************************************************)
BuildEnded == build.pc = "ended"

HasBuildResult == build.buildData # <<>>

allCodes == build.buildData[1].allCodes

SamePair(a, b) == a.vocabulary = b.vocabulary /\ a.code = b.code

\* the stage a record of the merged sequence comes from: 4 the atoms of the
\* target vocabularies, 5 the expansion, 6 the drug-to-product mapping
StageOf(item) ==
    IF item.sourceRxcui # "" THEN 6 ELSE IF item.aui = "" THEN 5 ELSE 4

\* C1: in the code list of every BuildResult no two records have the same
\* (vocabulary, code) pair.
C1_NoTwoRecordsShareAPair ==
    HasBuildResult =>
        \A x, y \in 1..Len(allCodes) : SamePair(allCodes[x], allCodes[y]) => x = y

\* a BuildResult of two codes made from a merged sequence that held a pair twice
C1_Witness ==
    /\ HasBuildResult
    /\ Len(allCodes) >= 2
    /\ \E x, y \in 1..Len(build.allCodesBeforeDedup) :
          x < y /\ SamePair(build.allCodesBeforeDedup[x], build.allCodesBeforeDedup[y])

\* the standard vocabulary has no atom of the concept: the lookup returned no
\* atom, or the atoms request was answered not-found
NoStandardAtom == build.lookup \in {"empty", "notfound"}

\* C2: a build from a root outside the standard vocabulary whose concept has
\* no atom in the standard vocabulary ends with an error and without a
\* BuildResult.
C2_GateAborts ==
    (BuildEnded /\ NoStandardAtom) => (build.error # "" /\ ~HasBuildResult)

C7_MissingKeyIsFatal ==
    KeyNotConfigured(apiKey) =>
        /\ ~build.requested
        /\ BuildEnded => (build.error # "" /\ ~HasBuildResult)

\* no pair occurs twice in a sequence of records
PairsDistinct(items) ==
    \A x, y \in 1..Len(items) : SamePair(items[x], items[y]) => x = y

\* C11: in stage 5 of a build no (vocabulary, code) pair is the root of two
\* walks, none is reconciled twice and none is emitted as two expansion
\* records.
C11_NoPairExpandedTwice ==
    /\ PairsDistinct(build.walkedRoots)
    /\ PairsDistinct(build.reconciled)
    /\ PairsDistinct(build.hierarchicalExpansion)

\* a build whose target atoms held a pair twice, and in which a descendant
\* that had been reconciled came up again as a target atom
C11_Witness ==
    /\ BuildEnded
    /\ ~PairsDistinct(build.crossVocabResults)
    /\ \E x \in 1..Len(build.reconciled), y \in 1..Len(build.crossVocabResults) :
          SamePair(build.reconciled[x], build.crossVocabResults[y])

DrugRecords(items) == SelectSeq(items, LAMBDA item : item.vocabulary = "RXNORM")

\* C12: the drug-to-product mapping is called only in a build whose target
\* vocabularies include NDC, and at most once for each drug code.
C12_MappingOncePerDrugCode ==
    /\ (build.pc = "ndc" \/ build.ndcCalls # <<>>) =>
           "NDC" \in Range(BUILD_DOMAIN_VOCABULARIES[build.buildDomain])
    /\ \A x, y \in 1..Len(build.ndcCalls) :
           build.ndcCalls[x] = build.ndcCalls[y] => x = y

\* a build with two drug records of one code and a single mapping call
C12_Witness ==
    /\ BuildEnded
    /\ HasBuildResult
    /\ Len(build.ndcCalls) = 1
    /\ Len(DrugRecords(build.crossVocabResults \o build.hierarchicalExpansion)) = 2

(***************************************************************************)
(* Properties of the build button (ClickSpec).                             *)
(***************************************************************************)
\* handleBuildFromHierarchyNode has been entered
BuildStarted == build.pc \notin {"idle", "estimate", "warning"}

\* C13: when the estimate of the immediate descendants exceeds the warning
\* threshold, no build stage runs until the user confirms: while the warning
\* is open no build has been entered, a build above the threshold has been
\* entered only by confirmAndBuild, and closing the warning without
\* confirming (Cancel) leaves no build and no pending node.
C13_NoBuildUntilConfirmed ==
    /\ [](build.showWarningModal => ~BuildStarted /\ build.pendingBuildNode # <<>>)
    /\ [](build.estimatedDescendants > WARNING_THRESHOLD /\ BuildStarted
             => build.confirmed)
    /\ [][build.showWarningModal /\ ~build'.showWarningModal /\ ~build'.confirmed
             => ~BuildStarted' /\ build'.pendingBuildNode = <<>>]_vars

C13_Witness ==
    /\ build.estimatedDescendants > WARNING_THRESHOLD
    /\ build.confirmed
    /\ BuildStarted
    /\ ~build.showWarningModal

(***************************************************************************)
(* Properties of the build in the small world (ScenarioSpec).              *)
(***************************************************************************)
PairSet(items) ==
    {<<items[x].vocabulary, items[x].code>> : x \in 1..Len(items)}

\* the root and its two children resolved to three concepts
ThreeConcepts == Len(build.allCUIs) = 3

\* C15 as stated: the source concept count is the number of distinct concept
\* ids the root and its walked descendants resolved to, and a root with two
\* children, three concepts and one target code per concept yields at most 3
\* records and the count 3.
C15_ScenarioYieldsAtMostThree ==
    HasBuildResult =>
        /\ build.buildData[1].sourceHierarchyCount =
               Cardinality({c \in Range(build.servedConcepts) : IsCui(c)})
        /\ ThreeConcepts =>
               /\ build.buildData[1].sourceHierarchyCount = 3
               /\ Len(allCodes) <= 3

\* C15: the source concept count is the number of distinct concept ids the
\* root and its walked descendants resolved to; with a root of two children,
\* three concepts and one target code per concept the count is 3, stage 4
\* yields at most 3 distinct records, and the build yields one record per
\* distinct (vocabulary, code) of stage 4 and of the descendants stage 5
\* finds for the target codes: at most 3 when stage 5 finds no code beyond
\* those of stage 4.
C15_CountIsDistinctConcepts ==
    HasBuildResult =>
        /\ build.buildData[1].sourceHierarchyCount =
               Cardinality({c \in Range(build.servedConcepts) : IsCui(c)})
        /\ ThreeConcepts =>
               /\ build.buildData[1].sourceHierarchyCount = 3
               /\ Cardinality(PairSet(build.crossVocabResults)) <= 3
               /\ Len(allCodes) =
                      Cardinality(PairSet(build.crossVocabResults)
                                  \cup PairSet(build.hierarchicalExpansion))
               /\ PairSet(build.hierarchicalExpansion)
                      \subseteq PairSet(build.crossVocabResults)
                     => Len(allCodes) <= 3

\* three concepts with the SNOMEDCT_US codes as their target codes: stage 5
\* finds the children again and the build yields 3 records
C15_Witness ==
    /\ HasBuildResult
    /\ ThreeConcepts
    /\ build.buildData[1].sourceHierarchyCount = 3
    /\ build.hierarchicalExpansion # <<>>
    /\ Len(allCodes) = 3

(***************************************************************************)
(* Properties of the filter of the build view (FilterSpec).                *)
(***************************************************************************)
LowerCased(text) == [x \in 1..Len(text) |-> LowerOf(text[x])]

Contains(text, search) ==
    \E x \in 1..(Len(text) - Len(search) + 1) :
        \A y \in 1..Len(search) : text[x + y - 1] = search[y]

\* the concept id, code, term or vocabulary of the record contains the text,
\* whatever the case of either
MatchesText(record, text) ==
    \E field \in {record.cui, record.code, record.term, record.vocabulary} :
        Contains(LowerCased(field), LowerCased(text))

PassesVocabularySelection(record) ==
    \/ build.buildFilterVocabularies = <<>>
    \/ record.vocabulary \in Range(build.buildFilterVocabularies)

\* the view shows exactly the given records, each once
ShowsExactly(records) ==
    /\ Range(build.filteredCodes) = records
    /\ Len(build.filteredCodes) = Cardinality(records)

\* C20 as stated: a filter text shorter than 3 characters filters nothing, a
\* filter text of 3 or more characters keeps exactly the records whose
\* concept id, code, term or vocabulary contains it, case-insensitively
\* (among the records of the selected vocabularies).
C20_FilterFromThreeCharacters ==
    HasBuildResult =>
        ShowsExactly({record \in Range(allCodes) :
                         /\ PassesVocabularySelection(record)
                         /\ \/ Len(build.buildFilterText) < 3
                            \/ MatchesText(record, build.buildFilterText)})

\* C20: a filter text of fewer than 3 characters, the white space at its ends
\* not counted, filters nothing; any other filter text keeps exactly the
\* records whose concept id, code, term or vocabulary contains the text as
\* typed, case-insensitively (among the records of the selected
\* vocabularies).
C20_FilterFromThreeTrimmedCharacters ==
    HasBuildResult =>
        ShowsExactly({record \in Range(allCodes) :
                         /\ PassesVocabularySelection(record)
                         /\ \/ Len(trim(build.buildFilterText)) < 3
                            \/ MatchesText(record, build.buildFilterText)})

\* "Snom" keeps the SNOMEDCT_US record of two records
C20_Witness ==
    /\ HasBuildResult
    /\ build.buildFilterText = <<"S", "n", "o", "m">>
    /\ build.buildFilterVocabularies = <<>>
    /\ Len(allCodes) = 2
    /\ Len(build.filteredCodes) = 1
    /\ build.filteredCodes[1].vocabulary =
          <<"S", "N", "O", "M", "E", "D", "C", "T", "_", "U", "S">>

(***************************************************************************)
(* Properties of the export.                                               *)
(***************************************************************************)
\* the parts of a text between the occurrences of a separator
RECURSIVE SplitOn(_, _, _)
SplitOn(text, separator, part) ==
    IF text = <<>> THEN <<part>>
    ELSE IF Head(text) = separator
         THEN <<part>> \o SplitOn(Tail(text), separator, <<>>)
         ELSE SplitOn(Tail(text), separator, Append(part, Head(text)))

\* the lines of the exported file, each as its tab-separated fields
ExportedLines ==
    IF build.exportContent = <<>> THEN <<>>
    ELSE LET lines == SplitOn(build.exportContent, "\n", <<>>)
         IN  [x \in 1..Len(lines) |-> SplitOn(lines[x], "\t", <<>>)]

PassesActiveFilters(record) ==
    /\ PassesVocabularySelection(record)
    /\ \/ Len(trim(build.buildFilterText)) < 3
       \/ MatchesText(record, build.buildFilterText)

JustExported == HasBuildResult /\ build.lastEvent = "export"

\* C21: the exported text has exactly one line per record that passes the
\* active filters (the text filter and the vocabulary selection), each line
\* is vocabulary, tab, code, and the lines are in ascending order of
\* (vocabulary, code).
C21_ExportIsFilteredSortedLines ==
    JustExported =>
        /\ Len(ExportedLines) =
               Cardinality({x \in 1..Len(allCodes) : PassesActiveFilters(allCodes[x])})
        /\ \A x \in 1..Len(allCodes) :
               PassesActiveFilters(allCodes[x]) =>
                   \E y \in 1..Len(ExportedLines) :
                       ExportedLines[y] = <<allCodes[x].vocabulary, allCodes[x].code>>
        /\ \A y \in 1..Len(ExportedLines) :
               \E x \in 1..Len(allCodes) :
                   /\ PassesActiveFilters(allCodes[x])
                   /\ ExportedLines[y] = <<allCodes[x].vocabulary, allCodes[x].code>>
        /\ \A y \in 1..(Len(ExportedLines) - 1) :
               LET vocabCompare ==
                       localeCompare(ExportedLines[y][1], ExportedLines[y + 1][1])
               IN  \/ vocabCompare < 0
                   \/ /\ vocabCompare = 0
                      /\ localeCompare(ExportedLines[y][2], ExportedLines[y + 1][2]) <= 0

\* an export of two ICD10CM records held in descending order of code, with
\* the vocabulary filter on ICD10CM
C21_Witness ==
    /\ JustExported
    /\ Len(allCodes) = 2
    /\ build.buildFilterVocabularies = <<<<"I", "C", "D", "1", "0", "C", "M">>>>
    /\ allCodes[1].code = <<"G", "4", "3">>
    /\ allCodes[2].code = <<"1", "0">>
    /\ Len(ExportedLines) = 2
    /\ ExportedLines[1][2] = <<"1", "0">>

\* C28: the build result does not change once it is there: whatever filter
\* text is set, vocabulary filter toggled or export made, buildData (and so
\* its code list, the same records in the same order) stays as it was.
C28_BuildResultUnchanged ==
    [][HasBuildResult => build'.buildData = build.buildData]_vars

\* an export under the filter text "g4" of a code list that is held in
\* another order than the exported one, after a toggle of the vocabulary
\* filter
C28_Witness ==
    /\ JustExported
    /\ build.buildFilterText = <<"g", "4">>
    /\ build.buildFilterVocabularies = <<<<"I", "C", "D", "1", "0", "C", "M">>>>
    /\ Len(allCodes) = 2
    /\ allCodes[1].vocabulary = <<"S", "N", "O", "M", "E", "D", "C", "T", "_", "U", "S">>
    /\ Len(build.filteredCodes) = 1
    /\ Len(ExportedLines) = 1

(***************************************************************************)
(* Properties of the atoms of getConceptDetails.                           *)
(***************************************************************************)
GwDetailsReturned == gw.op = "getConceptDetails" /\ ~gw.outcome.threw

\* the atoms as the service sent them
GwServedAtoms == gw.resps[2].body

IsUrlText(text) == text[1] \in {"http:", "https:"}

\* C22: when the code field of an atom is a URL, the extracted source code is
\* the last path segment of the URL and the URL is kept in a field of its
\* own; a code that is no URL is kept unchanged.
C22_CodeIsLastUrlSegment ==
    GwDetailsReturned =>
        /\ Len(gw.outcome.value.atoms) = Len(GwServedAtoms)
        /\ \A x \in 1..Len(GwServedAtoms) :
              LET served == GwServedAtoms[x]
                  atom == gw.outcome.value.atoms[x]
              IN  /\ atom.code = served.code
                  /\ IsUrlText(served.code) =>
                         /\ atom.actualCode = <<served.code[Len(served.code)]>>
                         /\ atom.codeUrl = served.code
                  /\ ~IsUrlText(served.code) => atom.actualCode = served.code

\* the code .../source/ICD10CM/G43.909 gives G43.909, next to the code 10/2
\* that stays as it is
C22_Witness ==
    /\ GwDetailsReturned
    /\ Len(GwServedAtoms) = 2
    /\ GwServedAtoms[1].code = UrlOf("ICD10CM", "G43.909")
    /\ gw.outcome.value.atoms[1].actualCode = <<"G43.909">>
    /\ gw.outcome.value.atoms[1].codeUrl = UrlOf("ICD10CM", "G43.909")
    /\ gw.outcome.value.atoms[2].actualCode = <<"10", "2">>

(***************************************************************************)
(* Properties of the atoms of the concept view.                            *)
(***************************************************************************)
\* the (vocabulary, code) pair of an atom
PairOfAtom(atom) ==
    <<atom.rootSource, IF atom.actualCode # "" THEN atom.actualCode ELSE atom.code>>

\* C23: of the atoms of the selected concept exactly one is shown per
\* (vocabulary, code) pair, and whenever at least one atom of the pair is a
\* preferred term (PT) the atom shown is a preferred term.
C23_OneAtomPerPairPreferringPT ==
    /\ \A x \in 1..Len(build.shownAtoms) : build.shownAtoms[x] \in Range(build.selectedAtoms)
    /\ \A a \in Range(build.selectedAtoms) :
          /\ Cardinality({x \in 1..Len(build.shownAtoms) :
                             PairOfAtom(build.shownAtoms[x]) = PairOfAtom(a)}) = 1
          /\ a.termType = "PT" =>
                \A x \in 1..Len(build.shownAtoms) :
                    PairOfAtom(build.shownAtoms[x]) = PairOfAtom(a)
                        => build.shownAtoms[x].termType = "PT"

\* a synonym, a preferred term and a synonym again of ICD10CM 1: the preferred
\* term is shown
C23_Witness ==
    /\ Len(build.selectedAtoms) = 3
    /\ build.selectedAtoms[1].ui = "A1"
    /\ build.selectedAtoms[2].ui = "A2"
    /\ build.selectedAtoms[3].ui = "A1"
    /\ Len(build.shownAtoms) = 1
    /\ build.shownAtoms[1].ui = "A2"

(***************************************************************************)
(* Properties of the vocabulary names.                                     *)
(***************************************************************************)
\* the last two conversions are fn1 and then fn2 of its output
RoundTrip(fn1, fn2) ==
    /\ Len(build.conversions) = 2
    /\ build.conversions[1].fn = fn1
    /\ build.conversions[2].fn = fn2
    /\ build.conversions[2].input = build.conversions[1].output

TableVocabularyIds ==
    {VOCABULARY_MAPPINGS[x].vocabulary_id : x \in 1..Len(VOCABULARY_MAPPINGS)}

TableUmlsVocabularies ==
    {VOCABULARY_MAPPINGS[x].umls_vocabulary : x \in 1..Len(VOCABULARY_MAPPINGS)}

\* C24: the conversions are inverse to each other: for every vocabulary_id v
\* of the table umlsToVocabularyId(vocabularyIdToUmls(v)) = v, and for every
\* UMLS abbreviation u of the table
\* vocabularyIdToUmls(umlsToVocabularyId(u)) = u.
C24_ConversionsRoundTrip ==
    /\ (RoundTrip("vocabularyIdToUmls", "umlsToVocabularyId")
           /\ build.conversions[1].input \in TableVocabularyIds)
          => build.conversions[2].output = build.conversions[1].input
    /\ (RoundTrip("umlsToVocabularyId", "vocabularyIdToUmls")
           /\ build.conversions[1].input \in TableUmlsVocabularies)
          => build.conversions[2].output = build.conversions[1].input

(***************************************************************************)
(* Properties of the root of a build (AnchorSpec).                         *)
(***************************************************************************)
\* the build started from a row of another vocabulary than the standard one
\* of its domain (in this world every concept has an atom in the standard
\* vocabulary)
StartedOffStandard ==
    /\ build.startedFrom # <<>>
    /\ build.startedFrom[1].rootSource
          # getStandardVocabularyForDomain(
                getDomainFromVocabulary(build.startedFrom[1].rootSource))

\* C25: when the vocabulary of the root node differs from the standard
\* vocabulary of the domain and the concept has an atom in the standard
\* vocabulary, the walk starts from a standard-vocabulary code of the
\* concept of the root node the build was started from, and the vocabulary
\* of the build result is the standard vocabulary.
C25_ReanchoredToSameConcept ==
    (StartedOffStandard /\ build.pc \notin {"idle", "stage1"}) =>
        /\ build.vocabulary = getStandardVocabularyForDomain(build.buildDomain)
        /\ ConceptOfCode(build.code) = ConceptOfCode(build.startedFrom[1].code)
        /\ HasBuildResult =>
              build.buildData[1].vocabulary
                  = getStandardVocabularyForDomain(build.buildDomain)

(***************************************************************************)
(* Properties of a walk with failed calls (TreeSpec).                      *)
(***************************************************************************)
\* the codes whose descendant fetch failed: the request was rejected, or
\* answered with an error status (404, which getDescendants turns into no
\* descendants, or another, which it throws), or with a body that is no JSON
FailedCodes ==
    {build.walkAnswers[x].code :
        x \in {y \in 1..Len(build.walkAnswers) : build.walkAnswers[y].kind # "ok"}}

\* the children of a code in the tree
ChildrenInTree(c) ==
    CASE c = "1" -> <<"2", "3">> [] c = "2" -> <<"4">> [] c = "3" -> <<"5">>
      [] c = "5" -> <<"6">> [] OTHER -> <<>>

\* what the walk of a code is to return: each child, followed by the walk of
\* that child; nothing below a code whose call failed
RECURSIVE ExpectedBelow(_)
ExpectedBelow(c) ==
    IF Plain(c) \in FailedCodes THEN <<>>
    ELSE LET children == ChildrenInTree(c)
         IN  Flatten([x \in 1..Len(children) |->
                         <<children[x]>> \o ExpectedBelow(children[x])])

TreeWalkDone == walk # NoWalk /\ walk.status = "done"

\* C26: in the recursive walk a failed descendant fetch for one code is
\* confined to that code: the code stays in the result, nothing of its
\* subtree is in the result, its remaining siblings are walked as without
\* the failure, and the walk returns a result.
C26_FailureConfinedToItsCode ==
    TreeWalkDone =>
        [x \in 1..Len(walk.result) |-> walk.result[x].code]
            = [x \in 1..Len(ExpectedBelow("1")) |-> Plain(ExpectedBelow("1")[x])]

\* the call for "2" failed with a rejected request: "2" is in the result, "4"
\* is not, "3", "5" and "6" are
C26_Witness ==
    /\ TreeWalkDone
    /\ FailedCodes = {Plain("2")}
    /\ build.walkAnswers[2] = [code |-> Plain("2"), kind |-> "network"]
    /\ [x \in 1..Len(walk.result) |-> walk.result[x].code]
          = <<Plain("2"), Plain("3"), Plain("5"), Plain("6")>>

(***************************************************************************)
(* Properties of the codes of a walk (WalkSpec).                           *)
(***************************************************************************)
WalkDoneRecursive == walk # NoWalk /\ walk.status = "done" /\ walk.vocabulary # "RXNORM"

\* the codes of the source-code list of stage 2: the root, then the result of
\* the walk
SourceCodeList == <<walk.root>> \o [x \in 1..Len(walk.result) |-> walk.result[x].code]

\* C29: in recursive mode the result of a walk never holds the root code of
\* the walk and never holds a code twice, so the source-code list of stage
\* 2, the root followed by the result, has pairwise distinct codes.
C29_WalkCodesDistinct ==
    WalkDoneRecursive =>
        /\ \A x \in 1..Len(walk.result) : walk.result[x].code # walk.root
        /\ \A x, y \in 1..Len(walk.result) :
              walk.result[x].code = walk.result[y].code => x = y
        /\ \A x, y \in 1..Len(SourceCodeList) :
              SourceCodeList[x] = SourceCodeList[y] => x = y

\* a walk in which the service served the root as a descendant and served a
\* code under two codes
C29_Witness ==
    /\ WalkDoneRecursive
    /\ Len(walk.result) >= 2
    /\ \E e \in walk.edges : e[2] = walk.root
    /\ \E e, f \in walk.edges : e[1] # f[1] /\ e[2] = f[2] /\ e[2] # walk.root

(***************************************************************************)
(* Properties of the ways out of a build (ExitSpec).                       *)
(***************************************************************************)
EndedInError == BuildEnded /\ build.error # ""

RECURSIVE RunAlone(_)
RunAlone(m) == IF m.build.pc = "ended" THEN m ELSE RunAlone(InvocationStep(m, KeyValid))

BuildAlone(code) ==
    RunAlone(StartBuild(KeyValid, [ScenarioRoot EXCEPT !.code = code], "condition", ""))

InvocationEnded(x) == build.invocations[x].build.pc = "ended"

\* C27: the visited and processed sets belong to one build invocation: when
\* two builds run with their awaits interleaved, neither skips a code
\* because of the other: each ends with the walks, the reconciled
\* descendants and the result of the same build run on its own.
C27_BuildsDoNotShareSets ==
    \A x \in 1..Len(build.invocations) :
        InvocationEnded(x) =>
            LET b == build.invocations[x].build
                alone == BuildAlone(b.code).build
            IN  /\ b.walkedRoots = alone.walkedRoots
                /\ b.reconciled = alone.reconciled
                /\ b.allCUIs = alone.allCUIs
                /\ b.buildData = alone.buildData

\* two builds from the root "1" have ended, each with the three source
\* concepts and with walks from the ICD10CM codes
C27_Witness ==
    /\ build.invocations # <<>>
    /\ InvocationEnded(1) /\ InvocationEnded(2)
    /\ build.invocations[1].build.code = Plain("1")
    /\ build.invocations[2].build.code = Plain("1")
    /\ Len(build.invocations[1].build.allCUIs) = 3
    /\ Len(build.invocations[2].build.allCUIs) = 3
    /\ Len(build.invocations[2].build.walkedRoots) >= 2
    /\ build.invocations[2].build.buildData # <<>>

====
